---- MODULE Spec2Model ----
(***************************************************************************)
(* The connection registry (WSHub) and the connection lifecycle handler    *)
(* (WebSocketHandler.HandleWebSocket) of two-pic-backend.                  *)
(*                                                                         *)
(* One execution context per connection handle runs HandleWebSocket; all   *)
(* contexts share the hub's map, guarded by h.mu.  Every step below is one *)
(* access to shared state (the map under the lock, a write or read on a    *)
(* connection, a pairing lookup) together with the local code around it.   *)
(***************************************************************************)
EXTENDS Integers, Sequences, FiniteSets, TLC

\* ------------------------------------------------------------------ bounds
NumConns == 2      \* connection handles (one HandleWebSocket call each)
MaxFrames == 2     \* inbound frames read over all connections
MaxNow == 2        \* values of the server clock
MaxFaults == 1     \* peers that go away on their own

ClientTs == 7      \* a non-zero timestamp supplied by a client

Conns == 1..NumConns
NoConn == 0
Users == {"x", "y", "z"}
NoUser == ""

\* ------------------------------------------------------------------ state
VARIABLES
    connections,  \* WSHub.connections: identity -> handle (NoConn: no entry)
    mu,           \* contexts holding WSHub.mu for writing
    closed,       \* handles on which the server called Close()
    broken,       \* handles whose peer or transport is gone
    outbox,       \* per handle, the messages written to it, in order
    pairs,        \* rows of the pairs table
    token,        \* per handle, the token its upgrade request carries
    now,          \* the server clock (time.Now)
    pc,           \* per context, its position in HandleWebSocket
    userID,       \* per context, the identity ValidateJWT returned
    pair,         \* per context, the row the pairing lookup returned
    msg,          \* per context, the decoded frame being handled
    nframe,       \* per context, the number of frames it has read
    call,         \* per context, the SendToUser call in progress
    errtext,      \* per context, the text sendError is about to write
    sends,        \* history: the SendToUser calls that returned
    regLog,       \* history: per identity, the handles registered, in order
    lastHubOp,    \* history: per identity, the last map mutation
    unregCalls,   \* history: per context, deferred Unregister calls made
    dbCalls,      \* history: the collaborator calls made for each frame
    hubLog,       \* history: the Register and Unregister calls, with the
                  \*   entry they touched and the partner's entry at that time
    frameLog,     \* history: the frames read
    trigLog       \* history: the TriggerPhoto calls, with the partner's entry
                  \*   at the IsOnline check

hubVars == <<connections, mu>>
netVars == <<closed, broken, outbox>>
envVars == <<pairs, token, now>>
ctxVars == <<pc, userID, pair, msg, nframe, call, errtext>>
histVars == <<sends, regLog, lastHubOp, unregCalls, dbCalls, hubLog, frameLog, trigLog>>
vars == <<connections, mu, closed, broken, outbox, pairs, token, now,
          pc, userID, pair, msg, nframe, call, errtext,
          sends, regLog, lastHubOp, unregCalls, dbCalls, hubLog, frameLog, trigLog>>

\* --------------------------------------------------------------- messages
\* WSMessage with every field at its zero value; Online is a *bool ("" is
\* nil), Data is the has_pair / pair_id payload of pair_status.
NoData == [has_pair |-> "", pair_id |-> ""]
ZeroMsg ==
    [Type |-> "", Timestamp |-> 0, InitiatorID |-> "", PhotoID |-> "",
     S3URL |-> "", Online |-> "", Message |-> "", Data |-> NoData]

ErrorMsg(text) == [ZeroMsg EXCEPT !.Type = "error", !.Message = text]

PartnerStatusMsg(online) ==
    [ZeroMsg EXCEPT !.Type = "partner_status",
                    !.Online = IF online THEN "true" ELSE "false"]

\* A pair_status that never reports a pair.
PairStatusMsgUnpaired(row) ==
    [ZeroMsg EXCEPT !.Type = "pair_status",
                    !.Data = [has_pair |-> "false", pair_id |-> ""]]

\* websocket.go lines 85-91 and 100-105.
PairStatusMsg(row) ==
    [ZeroMsg EXCEPT !.Type = "pair_status",
                    !.Data = IF row.ID # ""
                             THEN [has_pair |-> "true", pair_id |-> row.ID]
                             ELSE [has_pair |-> "false", pair_id |-> ""]]

\* A take_photo that does not carry the timestamp.
TakePhotoMsgUnstamped(initiator, ts) ==
    [ZeroMsg EXCEPT !.Type = "take_photo", !.InitiatorID = initiator]

TakePhotoMsg(initiator, ts) ==
    [ZeroMsg EXCEPT !.Type = "take_photo", !.InitiatorID = initiator,
                    !.Timestamp = ts]

\* WSHub.NotifyPairCreated lines 180-191 and NotifyPairDeleted lines 194-199.
PairCreatedMsg(row) ==
    [ZeroMsg EXCEPT !.Type = "pair_created",
                    !.Data = [pair_id |-> row.ID, user_a_id |-> row.UserAID,
                              user_b_id |-> row.UserBID, created_at |-> row.CreatedAt]]

PairDeletedMsg == [ZeroMsg EXCEPT !.Type = "pair_deleted"]

\* What a handle received: the message, and (history) the context and the
\* frame of that context that caused it (frame 0: the connection's opening).
Stamp(m, c, k) == [msg |-> m, by |-> c, frame |-> k]

NoPair == [ID |-> "", UserAID |-> NoUser, UserBID |-> NoUser]
NoCall == [site |-> "", target |-> NoUser, message |-> ZeroMsg, conn |-> NoConn]

\* The frames a client may send: an undecodable one, trigger_photo with and
\* without a timestamp, photo_uploaded with and without its fields, and a
\* type the server does not know.
InboundMsgs ==
    {[ZeroMsg EXCEPT !.Type = "trigger_photo", !.Timestamp = t] : t \in {0, ClientTs}}
    \cup {[ZeroMsg EXCEPT !.Type = "photo_uploaded", !.PhotoID = f[1], !.S3URL = f[2]] :
            f \in {<<"ph", "url">>, <<"", "url">>, <<"ph", "">>}}
    \cup {[ZeroMsg EXCEPT !.Type = "ping"]}
Frames ==
    {[json |-> FALSE, msg |-> ZeroMsg]} \cup {[json |-> TRUE, msg |-> m] : m \in InboundMsgs}
\* The frames of clients that only trigger photos.
TriggerFrames == {f \in Frames : ~f.json \/ f.msg.Type = "trigger_photo"}

\* ---------------------------------------------------------- collaborators
\* PairRepository.GetByUserID: the rows with the identity as either member
\* (the query takes one of them, LIMIT 1).
GetByUserID(u) == {p \in pairs : p.UserAID = u \/ p.UserBID = u}

\* A partner that is looked up in the table again whenever it is needed.
PartnerOfTable(row, u) ==
    IF GetByUserID(u) = {} THEN NoUser
    ELSE LET r == CHOOSE q \in GetByUserID(u) : TRUE
         IN  IF r.UserAID = u THEN r.UserBID ELSE r.UserAID

\* The partner as the handlers compute it: UserAID, unless that is the
\* identity itself.
PartnerOf(row, u) == IF row.UserAID = u THEN row.UserBID ELSE row.UserAID

\* A validation that accepts every token as x's.
ValidateJWTAcceptsAll(tok) == "x"

\* UserService.ValidateJWT: the identity a token names, NoUser on failure.
ValidateJWT(tok) ==
    CASE tok = "tok_x" -> "x"
      [] tok = "tok_y" -> "y"
      [] tok = "tok_z" -> "z"
      [] OTHER -> NoUser

\* A write or read on a handle fails once the handle is closed or its peer
\* is gone.
Healthy(conn) == conn \notin closed /\ conn \notin broken

\* A handle's peer may go away at any read or write, unless the handle has
\* failed already.
MayFail(conn) == ~Healthy(conn) \/ Cardinality(broken) < MaxFaults

\* The failed handles after a read or write on conn has failed.
Failed(conn) == IF conn \in closed THEN broken ELSE broken \cup {conn}

\* ------------------------------------------------------------------- Init
\* The requests that arrive: x always connects; the second request is x's
\* partner y, x again, the unpaired z, or one with a token that does not
\* validate, or one without a token; any further request is y's.
TokenCfgs ==
    {[c \in Conns |-> IF c = 1 THEN "tok_x" ELSE IF c = 2 THEN t ELSE "tok_y"] :
        t \in {"tok_y", "tok_x", "tok_z", "garbage", ""}}

Init ==
    /\ token \in TokenCfgs
    /\ connections = [u \in Users |-> NoConn]
    /\ mu = {}
    /\ closed = {}
    /\ broken = {}
    /\ outbox = [c \in Conns |-> <<>>]
    /\ pairs = {[ID |-> "p1", UserAID |-> "x", UserBID |-> "y"]}
    /\ now = 1
    /\ pc = [c \in Conns |-> "idle"]
    /\ userID = [c \in Conns |-> NoUser]
    /\ pair = [c \in Conns |-> NoPair]
    /\ msg = [c \in Conns |-> ZeroMsg]
    /\ nframe = [c \in Conns |-> 0]
    /\ call = [c \in Conns |-> NoCall]
    /\ errtext = [c \in Conns |-> ""]
    /\ sends = {}
    /\ regLog = [u \in Users |-> <<>>]
    /\ lastHubOp = [u \in Users |-> "none"]
    /\ unregCalls = [c \in Conns |-> 0]
    /\ dbCalls = {}
    /\ hubLog = {}
    /\ frameLog = {}
    /\ trigLog = {}

\* ---------------------------------------------------- HandleWebSocket: open
\* A handler that goes on after the upgrade without calling Register.
ConnectSkipsRegister(c) ==
    /\ pc[c] = "idle"
    /\ \E tok \in {token[c]}, upgraded \in BOOLEAN :
          IF tok = "" \/ ValidateJWT(tok) = NoUser
          THEN /\ upgraded
               /\ pc' = [pc EXCEPT ![c] = "unauthorized"]
               /\ UNCHANGED userID
          ELSE IF ~upgraded
          THEN /\ pc' = [pc EXCEPT ![c] = "upgrade_failed"]
               /\ UNCHANGED userID
          ELSE /\ pc' = [pc EXCEPT ![c] = "getpair"]
               /\ userID' = [userID EXCEPT ![c] = ValidateJWT(tok)]
    /\ UNCHANGED <<hubVars, netVars, envVars, pair, msg, nframe, call, errtext, histVars>>

\* Lines 44-65: token check, ValidateJWT, Upgrade.  A request without a valid
\* token is answered 401; a failed upgrade ends the handler.
Connect(c) ==
    /\ pc[c] = "idle"
    /\ \E tok \in {token[c]}, upgraded \in BOOLEAN :
          IF tok = "" \/ ValidateJWT(tok) = NoUser
          THEN /\ upgraded
               /\ pc' = [pc EXCEPT ![c] = "unauthorized"]
               /\ UNCHANGED userID
          ELSE IF ~upgraded
          THEN /\ pc' = [pc EXCEPT ![c] = "upgrade_failed"]
               /\ UNCHANGED userID
          ELSE /\ pc' = [pc EXCEPT ![c] = "register"]
               /\ userID' = [userID EXCEPT ![c] = ValidateJWT(tok)]
    /\ UNCHANGED <<hubVars, netVars, envVars, pair, msg, nframe, call, errtext, histVars>>

\* History only: the registry entry of u's partner (NoConn: u has no
\* partner, or the partner has no entry).
PartnerEntry(u) ==
    LET rows == {p \in pairs : p.UserAID = u \/ p.UserBID = u} IN
    IF rows = {} THEN NoConn
    ELSE LET row == CHOOSE p \in rows : TRUE IN
         connections[IF row.UserAID = u THEN row.UserBID ELSE row.UserAID]

HubEntry(op, c, kind, u) ==
    [op |-> op, by |-> c, kind |-> kind, user |-> u,
     entry |-> connections[u], partnerEntry |-> PartnerEntry(u)]

\* ------------------------------------------------------------ WSHub.Register
\* A lock that is granted to everyone at once.
LockAlwaysGranted == TRUE

\* h.mu.Lock(): granted when no context holds the lock.
LockFree == mu = {}

RegisterLock(c) ==
    /\ pc[c] = "register"
    /\ LockFree
    /\ mu' = mu \cup {c}
    /\ pc' = [pc EXCEPT ![c] = "register_cs"]
    /\ UNCHANGED <<connections, netVars, envVars, userID, pair, msg, nframe, call, errtext, histVars>>

\* WSHub.notifyPartnerStatus: the detached call Register and Unregister
\* start.  Its body is empty: it writes nothing.
notifyPartnerStatus(ob, u, online) == ob

\* A Register that leaves the replaced handle open.
RegisterClosesNothing(u) == {}

\* Lines 46-48: the handles closed by Register(u, conn).
RegisterCloses(u) ==
    IF connections[u] # NoConn THEN {connections[u]} ELSE {}

\* Line 50: the map after Register(u, conn).
RegisterInstall(u, conn) == [connections EXCEPT ![u] = conn]

\* A Register that returns without its Unlock.
RegisterKeepsLock(c) ==
    /\ pc[c] = "register_cs"
    /\ closed' = closed \cup RegisterCloses(userID[c])
    /\ connections' = RegisterInstall(userID[c], c)
    /\ outbox' = notifyPartnerStatus(outbox, userID[c], TRUE)
    /\ mu' = mu
    /\ pc' = [pc EXCEPT ![c] = "getpair"]
    /\ regLog' = [regLog EXCEPT ![userID[c]] = Append(@, c)]
    /\ lastHubOp' = [lastHubOp EXCEPT ![userID[c]] = "register"]
    /\ hubLog' = hubLog \cup {HubEntry("register", c, "open", userID[c])}
    /\ UNCHANGED <<broken, envVars, userID, pair, msg, nframe, call, errtext,
                   sends, unregCalls, dbCalls, frameLog, trigLog>>

\* The body of Register under the lock, and the deferred Unlock.
Register(c) ==
    /\ pc[c] = "register_cs"
    /\ closed' = closed \cup RegisterCloses(userID[c])
    /\ connections' = RegisterInstall(userID[c], c)
    /\ outbox' = notifyPartnerStatus(outbox, userID[c], TRUE)
    /\ mu' = mu \ {c}
    /\ pc' = [pc EXCEPT ![c] = "getpair"]
    /\ regLog' = [regLog EXCEPT ![userID[c]] = Append(@, c)]
    /\ lastHubOp' = [lastHubOp EXCEPT ![userID[c]] = "register"]
    /\ hubLog' = hubLog \cup {HubEntry("register", c, "open", userID[c])}
    /\ UNCHANGED <<broken, envVars, userID, pair, msg, nframe, call, errtext,
                   sends, unregCalls, dbCalls, frameLog, trigLog>>

\* ---------------------------------------------------------- WSHub.SendToUser
\* A call of SendToUser(target, m) from the place `site` of the handler.
CallSend(c, site, target, m) ==
    /\ pc' = [pc EXCEPT ![c] = "send_lookup"]
    /\ call' = [call EXCEPT ![c] =
                  [site |-> site, target |-> target, message |-> m, conn |-> NoConn]]

\* HandleWebSocket lines 118-138: back at conn.ReadMessage().
BackToLoop(c) ==
    /\ pc' = [pc EXCEPT ![c] = "read"]
    /\ call' = [call EXCEPT ![c] = NoCall]
    /\ pair' = [pair EXCEPT ![c] = NoPair]
    /\ msg' = [msg EXCEPT ![c] = ZeroMsg]
    /\ errtext' = [errtext EXCEPT ![c] = ""]

\* HandleWebSocket lines 134-137: handleMessage returned an error, which
\* sendError writes to the handler's own connection.
HandleFailed(c, text) ==
    /\ pc' = [pc EXCEPT ![c] = "send_error"]
    /\ call' = [call EXCEPT ![c] = NoCall]
    /\ pair' = [pair EXCEPT ![c] = NoPair]
    /\ msg' = [msg EXCEPT ![c] = ZeroMsg]
    /\ errtext' = [errtext EXCEPT ![c] = text]

\* err.Error() of what SendToUser returns (lines 82 and 92).
ErrText(e) ==
    IF e = "NotConnected" THEN "user is not connected" ELSE "failed to send message"

\* A loop that ends after the first frame it has handled.
HandleMessageResultEndsLoop(c, e) ==
    /\ pc' = [pc EXCEPT ![c] = "defer_unregister"]
    /\ call' = [call EXCEPT ![c] = NoCall]
    /\ pair' = [pair EXCEPT ![c] = NoPair]
    /\ msg' = [msg EXCEPT ![c] = ZeroMsg]
    /\ errtext' = [errtext EXCEPT ![c] = ""]

\* A loop that drops what handleMessage returns.
HandleMessageResultDropped(c, e) == BackToLoop(c)

\* A loop that reports every handled frame as failed.
HandleMessageResultAlwaysFails(c, e) == HandleFailed(c, ErrText(e))

\* websocket.go lines 134-137: what handleMessage returned decides between
\* sendError and the next read.
HandleMessageResult(c, e) ==
    IF e = "nil" THEN BackToLoop(c) ELSE HandleFailed(c, ErrText(e))

\* Where PairHandler continues after each of its notifications.
AfterPairNotice ==
    [created_self |-> "api_created_partner", created_partner |-> "api_200",
     deleted_self |-> "api_deleted_partner", deleted_partner |-> "api_204"]

\* A SendToUser whose error ends the operation that called it: the request
\* answers 500, the connection handler returns.
ReturnAbortsOnFailure(c, e) ==
    LET s == call[c].site IN
    /\ sends' = sends \cup
          {[by |-> c, frame |-> nframe[c], site |-> s, target |-> call[c].target,
            conn |-> call[c].conn, result |-> e]}
    /\ IF e # "nil"
       THEN /\ pc' = [pc EXCEPT ![c] = IF s \in DOMAIN AfterPairNotice
                                       THEN "api_500" ELSE "defer_unregister"]
            /\ call' = [call EXCEPT ![c] = NoCall]
            /\ UNCHANGED <<pair, msg, errtext>>
       ELSE CASE s = "notify" ->
                    /\ CallSend(c, "pair_status", userID[c], PairStatusMsg(pair[c]))
                    /\ UNCHANGED <<pair, msg, errtext>>
              [] s = "take_initiator" ->
                    /\ CallSend(c, "take_partner", PartnerOf(pair[c], userID[c]), call[c].message)
                    /\ UNCHANGED <<pair, msg, errtext>>
              [] s \in DOMAIN AfterPairNotice ->
                    /\ pc' = [pc EXCEPT ![c] = AfterPairNotice[s]]
                    /\ call' = [call EXCEPT ![c] = NoCall]
                    /\ UNCHANGED <<pair, msg, errtext>>
              [] OTHER -> BackToLoop(c)

\* SendToUser returns e ("nil", "NotConnected" or "SendFailed") to its call
\* site, and the handler runs on to its next access to shared state.
Return(c, e) ==
    LET s == call[c].site IN
    /\ sends' = sends \cup
          {[by |-> c, frame |-> nframe[c], site |-> s, target |-> call[c].target,
            conn |-> call[c].conn, result |-> e]}
    /\ CASE s = "notify" ->
              \* websocket.go lines 83-98: the error is logged; pair_status follows
              /\ CallSend(c, "pair_status", userID[c], PairStatusMsg(pair[c]))
              /\ UNCHANGED <<pair, msg, errtext>>
         [] s = "pair_status" ->
              \* websocket.go lines 93-115: the error is logged; the loop starts
              BackToLoop(c)
         [] s = "take_initiator" ->
              \* hub lines 142-146: the error is logged; the partner's copy follows
              /\ CallSend(c, "take_partner", PartnerOf(pair[c], userID[c]), call[c].message)
              /\ UNCHANGED <<pair, msg, errtext>>
         [] s \in DOMAIN AfterPairNotice ->
              \* part_002 lines 90-109 and 184-203: the error is logged; the
              \* pair handler goes on
              /\ pc' = [pc EXCEPT ![c] = AfterPairNotice[s]]
              /\ call' = [call EXCEPT ![c] = NoCall]
              /\ UNCHANGED <<pair, msg, errtext>>
         [] OTHER ->
              \* take_partner (hub lines 146-157) and the error replies return
              \* SendToUser's result through handleMessage
              HandleMessageResult(c, e)

\* A lookup miss that is reported as success.
LookupMissIgnored(c) == Return(c, "nil")

\* Lines 81-83: no entry for the target.
LookupMiss(c) == Return(c, "NotConnected")

\* A lookup that keeps the lock while the message is written.
SendLookupKeepsLock(c) ==
    /\ pc[c] = "send_lookup"
    /\ mu = {}
    /\ IF connections[call[c].target] = NoConn
       THEN /\ Return(c, "NotConnected")
            /\ UNCHANGED mu
       ELSE /\ pc' = [pc EXCEPT ![c] = "send_write"]
            /\ call' = [call EXCEPT ![c].conn = connections[call[c].target]]
            /\ mu' = mu \cup {c}
            /\ UNCHANGED <<pair, msg, errtext, sends>>
    /\ UNCHANGED <<connections, netVars, envVars, userID, nframe, regLog, lastHubOp,
                   unregCalls, dbCalls, hubLog, frameLog, trigLog>>

\* Lines 77-83: the lookup under the read lock.
SendLookup(c) ==
    /\ pc[c] = "send_lookup"
    /\ LockFree
    /\ IF connections[call[c].target] = NoConn
       THEN LookupMiss(c)
       ELSE /\ pc' = [pc EXCEPT ![c] = "send_write"]
            /\ call' = [call EXCEPT ![c].conn = connections[call[c].target]]
            /\ UNCHANGED <<pair, msg, errtext, sends>>
    /\ UNCHANGED <<hubVars, netVars, envVars, userID, nframe, regLog, lastHubOp,
                   unregCalls, dbCalls, hubLog, frameLog, trigLog>>

\* A write that overtakes what was written to the handle before.
SendWriteOvertakes(c) ==
    /\ pc[c] = "send_write"
    /\ \E ok \in BOOLEAN :
          IF ok
          THEN /\ Healthy(call[c].conn)
               /\ outbox' = [outbox EXCEPT ![call[c].conn] =
                                <<Stamp(call[c].message, c, nframe[c])>> \o @]
               /\ Return(c, "nil")
               /\ UNCHANGED broken
          ELSE /\ MayFail(call[c].conn)
               /\ broken' = Failed(call[c].conn)
               /\ pc' = [pc EXCEPT ![c] = "evict"]
               /\ UNCHANGED <<outbox, call, pair, msg, errtext, sends>>
    /\ UNCHANGED <<hubVars, closed, envVars, userID, nframe, regLog, lastHubOp,
                   unregCalls, dbCalls, hubLog, frameLog, trigLog>>

\* Lines 85-95: conn.WriteMessage on the handle the lookup returned.  The
\* write fails on a closed or broken handle, and may find the peer gone.
SendWrite(c) ==
    /\ pc[c] = "send_write"
    /\ \E ok \in BOOLEAN :
          IF ok
          THEN /\ Healthy(call[c].conn)
               /\ outbox' = [outbox EXCEPT ![call[c].conn] =
                                Append(@, Stamp(call[c].message, c, nframe[c]))]
               /\ Return(c, "nil")
               /\ UNCHANGED broken
          ELSE /\ MayFail(call[c].conn)
               /\ broken' = Failed(call[c].conn)
               /\ pc' = [pc EXCEPT ![c] = "evict"]
               /\ UNCHANGED <<outbox, call, pair, msg, errtext, sends>>
    /\ UNCHANGED <<hubVars, closed, envVars, userID, nframe, regLog, lastHubOp,
                   unregCalls, dbCalls, hubLog, frameLog, trigLog>>

\* ---------------------------------------------------------- WSHub.Unregister
\* An Unregister that closes no handle.
UnregisterClosesNothing(u) == {}

\* Lines 65-66: the handles closed by Unregister(u).
UnregisterCloses(u) ==
    IF connections[u] # NoConn THEN {connections[u]} ELSE {}

\* An Unregister that leaves the entry in the map.
UnregisterRemoveNothing(u) == connections

\* Line 67: the map after Unregister(u).
UnregisterRemove(u) == [connections EXCEPT ![u] = NoConn]

\* Line 91: SendToUser calls Unregister(target) after a failed write.
EvictLock(c) ==
    /\ pc[c] = "evict"
    /\ LockFree
    /\ mu' = mu \cup {c}
    /\ pc' = [pc EXCEPT ![c] = "evict_cs"]
    /\ UNCHANGED <<connections, netVars, envVars, userID, pair, msg, nframe, call, errtext, histVars>>

Evict(c) ==
    /\ pc[c] = "evict_cs"
    /\ closed' = closed \cup UnregisterCloses(call[c].target)
    /\ connections' = UnregisterRemove(call[c].target)
    /\ outbox' = notifyPartnerStatus(outbox, call[c].target, FALSE)
    /\ mu' = mu \ {c}
    /\ lastHubOp' = [lastHubOp EXCEPT ![call[c].target] = "unregister"]
    /\ hubLog' = hubLog \cup {HubEntry("unregister", c, "evict", call[c].target)}
    /\ Return(c, "SendFailed")
    /\ UNCHANGED <<broken, envVars, userID, nframe, regLog, unregCalls, dbCalls, frameLog, trigLog>>

\* websocket.go line 72: the deferred Unregister(userID), run when the
\* handler returns or panics.
DeferLock(c) ==
    /\ pc[c] = "defer_unregister"
    /\ LockFree
    /\ mu' = mu \cup {c}
    /\ pc' = [pc EXCEPT ![c] = "defer_unregister_cs"]
    /\ UNCHANGED <<connections, netVars, envVars, userID, pair, msg, nframe, call, errtext, histVars>>

DeferUnregister(c) ==
    /\ pc[c] = "defer_unregister_cs"
    /\ closed' = closed \cup UnregisterCloses(userID[c])
    /\ connections' = UnregisterRemove(userID[c])
    /\ outbox' = notifyPartnerStatus(outbox, userID[c], FALSE)
    /\ mu' = mu \ {c}
    /\ lastHubOp' = [lastHubOp EXCEPT ![userID[c]] = "unregister"]
    /\ unregCalls' = [unregCalls EXCEPT ![c] = @ + 1]
    /\ hubLog' = hubLog \cup {HubEntry("unregister", c, "defer", userID[c])}
    /\ pc' = [pc EXCEPT ![c] = "close"]
    /\ UNCHANGED <<broken, envVars, userID, pair, msg, nframe, call, errtext,
                   sends, regLog, dbCalls, frameLog, trigLog>>

\* websocket.go line 65: the deferred conn.Close(), run after the deferred
\* Unregister.
Close(c) ==
    /\ pc[c] = "close"
    /\ closed' = closed \cup {c}
    /\ pc' = [pc EXCEPT ![c] = "done"]
    /\ UNCHANGED <<hubVars, broken, outbox, envVars, userID, pair, msg, nframe, call, errtext, histVars>>

\* ------------------------------------------- HandleWebSocket: after Register
\* An opening sequence that goes straight to pair_status.
NotifyPartnerStatusSkipped(c, row) ==
    CallSend(c, "pair_status", userID[c], PairStatusMsg(row))

\* WSHub.NotifyPartnerStatus lines 161-177, called at websocket.go line 83:
\* nothing is sent for an empty partner identity.
NotifyPartnerStatus(c, row) ==
    IF PartnerOf(row, userID[c]) = NoUser
    THEN CallSend(c, "pair_status", userID[c], PairStatusMsg(row))
    ELSE CallSend(c, "notify", PartnerOf(row, userID[c]), PartnerStatusMsg(TRUE))

\* Lines 74-113: the pairing lookup, then partner_status to the partner
\* and pair_status to the identity itself.
GetPair(c) ==
    /\ pc[c] = "getpair"
    /\ IF GetByUserID(userID[c]) = {}
       THEN /\ CallSend(c, "pair_status", userID[c], PairStatusMsg(NoPair))
            /\ UNCHANGED pair
       ELSE \E row \in GetByUserID(userID[c]) :
               /\ pair' = [pair EXCEPT ![c] = row]
               /\ NotifyPartnerStatus(c, row)
    /\ dbCalls' = dbCalls \cup {[by |-> c, frame |-> 0, op |-> "GetPairByUserID"]}
    /\ UNCHANGED <<hubVars, netVars, envVars, userID, msg, nframe, errtext,
                   sends, regLog, lastHubOp, unregCalls, hubLog, frameLog, trigLog>>

\* ------------------------------------------------- HandleWebSocket: the loop
SumTo(f, n) == IF n = 0 THEN 0 ELSE LET S[i \in 1..n] == IF i = 1 THEN f[1] ELSE S[i - 1] + f[i] IN S[n]
TotalFrames == SumTo(nframe, NumConns)

\* A switch that takes every unknown type for photo_uploaded.
DispatchUnknownAsUpload(c, m) ==
    IF m.Type = "trigger_photo"
    THEN /\ pc' = [pc EXCEPT ![c] = "trigger"]
         /\ msg' = [msg EXCEPT ![c] = m]
         /\ UNCHANGED <<call, errtext>>
    ELSE /\ pc' = [pc EXCEPT ![c] = "photo_update"]
         /\ msg' = [msg EXCEPT ![c] = m]
         /\ UNCHANGED <<call, errtext>>

\* Lines 141-151 and 177-181: handleMessage's switch on the type, up to the
\* first access to shared state.
Dispatch(c, m) ==
    CASE m.Type = "trigger_photo" ->
            /\ pc' = [pc EXCEPT ![c] = "trigger"]
            /\ msg' = [msg EXCEPT ![c] = m]
            /\ UNCHANGED <<call, errtext>>
      [] m.Type = "photo_uploaded" ->
            IF m.PhotoID = "" \/ m.S3URL = ""
            THEN /\ CallSend(c, "err_fields", userID[c], ErrorMsg("photo_id and s3_url are required"))
                 /\ UNCHANGED <<msg, errtext>>
            ELSE /\ pc' = [pc EXCEPT ![c] = "photo_update"]
                 /\ msg' = [msg EXCEPT ![c] = m]
                 /\ UNCHANGED <<call, errtext>>
      [] OTHER ->
            /\ CallSend(c, "err_unknown", userID[c], ErrorMsg("Unknown message type"))
            /\ UNCHANGED <<msg, errtext>>

\* Lines 118-125: ReadMessage fails (the handle was closed, or the peer is
\* gone or goes now) and the loop ends.
ReadFail(c) ==
    /\ pc[c] = "read"
    /\ MayFail(c)
    /\ broken' = Failed(c)
    /\ pc' = [pc EXCEPT ![c] = "defer_unregister"]
    /\ UNCHANGED <<hubVars, closed, outbox, envVars, userID, pair, msg, nframe, call, errtext, histVars>>

\* Lines 119-137: a frame is read, decoded and dispatched.  An undecodable
\* frame goes to sendError and the loop continues.
ReadFrame(c, F) ==
    /\ pc[c] = "read"
    /\ Healthy(c)
    /\ TotalFrames < MaxFrames
    /\ nframe' = [nframe EXCEPT ![c] = @ + 1]
    /\ \E f \in F :
          /\ IF ~f.json
             THEN /\ pc' = [pc EXCEPT ![c] = "send_error"]
                  /\ errtext' = [errtext EXCEPT ![c] = "Invalid message format"]
                  /\ UNCHANGED <<call, msg>>
             ELSE Dispatch(c, f.msg)
          /\ frameLog' = frameLog \cup
                {[by |-> c, frame |-> nframe[c] + 1, json |-> f.json, msg |-> f.msg,
                  at |-> now]}
    /\ UNCHANGED <<hubVars, netVars, envVars, userID, pair,
                   sends, regLog, lastHubOp, unregCalls, dbCalls, hubLog, trigLog>>

\* handleTriggerPhoto lines 154-165: the pairing lookup.
Trigger(c) ==
    /\ pc[c] = "trigger"
    /\ IF GetByUserID(userID[c]) = {}
       THEN /\ CallSend(c, "err_nopair", userID[c], ErrorMsg("You are not in a pair"))
            /\ UNCHANGED pair
       ELSE \E row \in GetByUserID(userID[c]) :
               /\ pair' = [pair EXCEPT ![c] = row]
               /\ pc' = [pc EXCEPT ![c] = "trigger_online"]
               /\ UNCHANGED call
    /\ dbCalls' = dbCalls \cup {[by |-> c, frame |-> nframe[c], op |-> "GetPairByUserID"]}
    /\ UNCHANGED <<hubVars, netVars, envVars, userID, msg, nframe, errtext,
                   sends, regLog, lastHubOp, unregCalls, hubLog, frameLog, trigLog>>

\* A clock that may return any earlier reading.
ClockStale == 1..MaxNow

\* WSHub.TriggerPhoto line 132: what time.Now() may return.
Clock == now..MaxNow

\* An IsOnline that also asks whether the entry's handle is still up.
IsOnlineHealthy(u) == connections[u] # NoConn /\ Healthy(connections[u])

\* An IsOnline that finds every identity.
IsOnlineAlways(u) == TRUE

\* WSHub.IsOnline lines 99-104.
IsOnline(u) == connections[u] # NoConn

\* A TriggerPhoto that sends take_photo without asking whether the partner
\* is online.
TriggerPhotoUnchecked(c) ==
    /\ pc[c] = "trigger_online"
    /\ LockFree
    /\ IF msg[c].Timestamp = 0
       THEN \E t \in Clock :
               /\ now' = t
               /\ CallSend(c, "take_initiator", userID[c], TakePhotoMsg(userID[c], t))
       ELSE /\ CallSend(c, "take_initiator", userID[c],
                        TakePhotoMsg(userID[c], msg[c].Timestamp))
            /\ UNCHANGED now
    /\ trigLog' = trigLog \cup
          {[by |-> c, frame |-> nframe[c],
            partner |-> PartnerOf(pair[c], userID[c]),
            partnerEntry |-> connections[IF pair[c].UserAID = userID[c]
                                         THEN pair[c].UserBID ELSE pair[c].UserAID]]}
    /\ UNCHANGED <<hubVars, netVars, pairs, token, userID, pair, msg, nframe, errtext,
                   sends, regLog, lastHubOp, unregCalls, dbCalls, hubLog, frameLog>>

\* WSHub.TriggerPhoto lines 120-140: the IsOnline check under the read
\* lock, the default timestamp, and the first SendToUser call.
TriggerPhoto(c) ==
    /\ pc[c] = "trigger_online"
    /\ LockFree
    /\ IF ~IsOnline(PartnerOf(pair[c], userID[c]))
       THEN /\ CallSend(c, "err_offline", userID[c], ErrorMsg("Partner is offline"))
            /\ UNCHANGED now
       ELSE IF msg[c].Timestamp = 0
       THEN \E t \in Clock :
               /\ now' = t
               /\ CallSend(c, "take_initiator", userID[c], TakePhotoMsg(userID[c], t))
       ELSE /\ CallSend(c, "take_initiator", userID[c],
                        TakePhotoMsg(userID[c], msg[c].Timestamp))
            /\ UNCHANGED now
    /\ trigLog' = trigLog \cup
          {[by |-> c, frame |-> nframe[c],
            partner |-> PartnerOf(pair[c], userID[c]),
            partnerEntry |-> connections[IF pair[c].UserAID = userID[c]
                                         THEN pair[c].UserBID ELSE pair[c].UserAID]]}
    /\ UNCHANGED <<hubVars, netVars, pairs, token, userID, pair, msg, nframe, errtext,
                   sends, regLog, lastHubOp, unregCalls, dbCalls, hubLog, frameLog>>

\* An update whose failure is not reported.
PhotoUpdateSilent(c) ==
    /\ pc[c] = "photo_update"
    /\ \E found \in BOOLEAN :
          /\ BackToLoop(c)
          /\ dbCalls' = dbCalls \cup
                {[by |-> c, frame |-> nframe[c], op |-> "UpdatePhotoS3URL", ok |-> found]}
    /\ UNCHANGED <<hubVars, netVars, envVars, userID, nframe, sends, regLog, lastHubOp,
                   unregCalls, hubLog, frameLog, trigLog>>

\* handlePhotoUploaded lines 183-193: the storage update, which fails when
\* no photo has the id.
PhotoUpdate(c) ==
    /\ pc[c] = "photo_update"
    /\ \E found \in BOOLEAN :
          /\ IF found
             THEN BackToLoop(c)
             ELSE /\ CallSend(c, "err_update", userID[c], ErrorMsg("Failed to update photo"))
                  /\ UNCHANGED <<pair, msg, errtext>>
          /\ dbCalls' = dbCalls \cup
                {[by |-> c, frame |-> nframe[c], op |-> "UpdatePhotoS3URL", ok |-> found]}
    /\ UNCHANGED <<hubVars, netVars, envVars, userID, nframe, sends, regLog, lastHubOp,
                   unregCalls, hubLog, frameLog, trigLog>>

\* A sendError after which the handler returns instead of reading on.
SendErrorAndReturn(c) ==
    /\ pc[c] = "send_error"
    /\ Healthy(c)
    /\ outbox' = [outbox EXCEPT ![c] =
                     Append(@, Stamp(ErrorMsg(errtext[c]), c, nframe[c]))]
    /\ pc' = [pc EXCEPT ![c] = "defer_unregister"]
    /\ call' = [call EXCEPT ![c] = NoCall]
    /\ pair' = [pair EXCEPT ![c] = NoPair]
    /\ msg' = [msg EXCEPT ![c] = ZeroMsg]
    /\ errtext' = [errtext EXCEPT ![c] = ""]
    /\ UNCHANGED <<hubVars, closed, broken, envVars, userID, nframe, histVars>>

\* sendError lines 197-204: a write on the handler's own connection, its
\* result ignored; the loop continues.
SendError(c) ==
    /\ pc[c] = "send_error"
    /\ \E ok \in BOOLEAN :
          IF ok
          THEN /\ Healthy(c)
               /\ outbox' = [outbox EXCEPT ![c] =
                                Append(@, Stamp(ErrorMsg(errtext[c]), c, nframe[c]))]
               /\ UNCHANGED broken
          ELSE /\ MayFail(c)
               /\ broken' = Failed(c)
               /\ UNCHANGED outbox
    /\ BackToLoop(c)
    /\ UNCHANGED <<hubVars, closed, envVars, userID, nframe, histVars>>

\* A panic that ends the handler without running its deferred calls.
PanicSkipsDefers(c) ==
    /\ pc[c] \in {"getpair", "send_lookup", "send_write", "evict", "read",
                  "trigger", "trigger_online", "photo_update", "send_error"}
    /\ pc' = [pc EXCEPT ![c] = "done"]
    /\ call' = [call EXCEPT ![c] = NoCall]
    /\ pair' = [pair EXCEPT ![c] = NoPair]
    /\ msg' = [msg EXCEPT ![c] = ZeroMsg]
    /\ errtext' = [errtext EXCEPT ![c] = ""]
    /\ UNCHANGED <<hubVars, netVars, envVars, userID, nframe, histVars>>

\* websocket.go lines 65 and 72: a panic in the handler, after its deferred
\* calls are set up and outside the hub's critical sections, unwinds
\* HandleWebSocket, which runs the deferred Unregister and Close.
Panic(c) ==
    /\ pc[c] \in {"getpair", "send_lookup", "send_write", "evict", "read",
                  "trigger", "trigger_online", "photo_update", "send_error"}
    /\ pc' = [pc EXCEPT ![c] = "defer_unregister"]
    /\ call' = [call EXCEPT ![c] = NoCall]
    /\ pair' = [pair EXCEPT ![c] = NoPair]
    /\ msg' = [msg EXCEPT ![c] = ZeroMsg]
    /\ errtext' = [errtext EXCEPT ![c] = ""]
    /\ UNCHANGED <<hubVars, netVars, envVars, userID, nframe, histVars>>

\* -------------------------------------------------------------------- Next
Next ==
    \E c \in Conns :
        \/ Connect(c)
        \/ RegisterLock(c)
        \/ Register(c)
        \/ GetPair(c)
        \/ SendLookup(c)
        \/ SendWrite(c)
        \/ EvictLock(c)
        \/ Evict(c)
        \/ ReadFail(c)
        \/ ReadFrame(c, TriggerFrames)
        \/ Trigger(c)
        \/ TriggerPhoto(c)
        \/ SendError(c)
        \/ DeferLock(c)
        \/ DeferUnregister(c)
        \/ Close(c)

Spec == Init /\ [][Next]_vars

\* ------------------------------------------------- abnormal termination
\* The frames of clients that send nothing the server can decode.
UndecodableFrames == {f \in Frames : ~f.json}

\* The handlers with panics: connections that open, read undecodable frames
\* and end by a failed read or by a panic.
AbnormalNext ==
    \E c \in Conns :
        \/ Connect(c)
        \/ RegisterLock(c)
        \/ Register(c)
        \/ GetPair(c)
        \/ SendLookup(c)
        \/ SendWrite(c)
        \/ EvictLock(c)
        \/ Evict(c)
        \/ ReadFail(c)
        \/ ReadFrame(c, UndecodableFrames)
        \/ SendError(c)
        \/ Panic(c)
        \/ DeferLock(c)
        \/ DeferUnregister(c)
        \/ Close(c)

\* Deferred calls run once the handler returns or panics, a goroutine that
\* holds h.mu runs on to its Unlock, and a goroutine waiting for h.mu gets
\* it once it stays free.
Fairness ==
    \A c \in Conns :
        /\ WF_vars(DeferLock(c))
        /\ WF_vars(DeferUnregister(c))
        /\ WF_vars(Close(c))
        /\ WF_vars(Register(c))
        /\ WF_vars(Evict(c))

AbnormalSpec == Init /\ [][AbnormalNext]_vars /\ Fairness

\* ----------------------------------------------------------- PairHandler
\* The context that serves a request to the pair API, next to those that
\* serve WebSocket connections.
ApiCtxs == {NumConns + 1}

Ctxs == Conns \cup ApiCtxs

\* The contexts of two requests to the pair API that run at the same time.
RequestCtxs == {NumConns + 1, NumConns + 2}

\* The id uuid.New() gives the pair a request creates: one per request.
NewPairID(a) == IF a = NumConns + 1 THEN "p2" ELSE "p3"

\* PairService.CreatePair lines 271-274: the members in lexicographic order.
Before(u, v) == <<u, v>> \in {<<"x", "y">>, <<"x", "z">>, <<"y", "z">>}

\* The end of a request with an HTTP status.
Respond(a, status) ==
    /\ pc' = [pc EXCEPT ![a] = status]
    /\ UNCHANGED <<pair, call>>

\* CreatePair lines 34-74 with PairService.CreatePair lines 234-260: the
\* body is checked, the partner is looked up by its code (v is NoUser when
\* no user has the code) and the requester's pairing is checked.
ApiCreatePair(a) ==
    /\ pc[a] = "api"
    /\ \E u \in Users, v \in Users \cup {NoUser}, wellFormed \in BOOLEAN :
          /\ userID' = [userID EXCEPT ![a] = u]
          /\ IF ~wellFormed THEN v = NoUser /\ Respond(a, "api_400")
             ELSE IF v = NoUser THEN Respond(a, "api_500")
             ELSE IF u = v THEN Respond(a, "api_409")
             ELSE IF GetByUserID(u) # {} THEN Respond(a, "api_409")
             ELSE /\ pc' = [pc EXCEPT ![a] = "api_create_partner"]
                  /\ pair' = [pair EXCEPT ![a] = [ID |-> "", UserAID |-> u, UserBID |-> v]]
                  /\ UNCHANGED call
    /\ UNCHANGED <<hubVars, netVars, envVars, msg, nframe, errtext, histVars>>

\* PairService.CreatePair lines 262-269: the partner's pairing is checked.
ApiCreateCheckPartner(a) ==
    /\ pc[a] = "api_create_partner"
    /\ IF GetByUserID(pair[a].UserBID) # {}
       THEN /\ pc' = [pc EXCEPT ![a] = "api_409"]
            /\ pair' = [pair EXCEPT ![a] = NoPair]
       ELSE /\ pc' = [pc EXCEPT ![a] = "api_create_insert"]
            /\ UNCHANGED pair
    /\ UNCHANGED <<hubVars, netVars, envVars, userID, msg, nframe, call, errtext, histVars>>

\* PairService.CreatePair lines 271-287 with PairRepository.Create: the row
\* is inserted unless the table's unique_pair constraint refuses it.
ApiCreateInsert(a) ==
    /\ pc[a] = "api_create_insert"
    /\ LET u == pair[a].UserAID
           v == pair[a].UserBID
           A == IF Before(u, v) THEN u ELSE v
           B == IF Before(u, v) THEN v ELSE u
       IN IF \E p \in pairs : p.UserAID = A /\ p.UserBID = B
          THEN /\ pc' = [pc EXCEPT ![a] = "api_500"]
               /\ pair' = [pair EXCEPT ![a] = NoPair]
               /\ UNCHANGED pairs
          ELSE /\ pairs' = pairs \cup {[ID |-> NewPairID(a), UserAID |-> A, UserBID |-> B]}
               /\ pair' = [pair EXCEPT ![a] =
                             [ID |-> NewPairID(a), UserAID |-> A, UserBID |-> B,
                              CreatedAt |-> now]]
               /\ pc' = [pc EXCEPT ![a] = "api_created_self"]
    /\ UNCHANGED <<hubVars, netVars, token, now, userID, msg, nframe, call, errtext, histVars>>

\* CreatePair lines 83-86: the partner of the requester in the new pair.
CreatedPartnerOf(row, u) == IF row.UserBID = u THEN row.UserAID ELSE row.UserBID

\* A notice that is sent without asking whether the member is online.
PairNoticeAlways(a, site, member, m, next) == CallSend(a, site, member, m)

\* Lines 90-98, 101-109, 184-192 and 195-203: a member is notified if
\* IsOnline finds it; otherwise the handler goes on.
PairNotice(a, site, member, m, next) ==
    IF IsOnline(member)
    THEN CallSend(a, site, member, m)
    ELSE /\ pc' = [pc EXCEPT ![a] = next]
         /\ UNCHANGED call

\* CreatePair lines 88-98: pair_created to the requester.
ApiCreatedSelf(a) ==
    /\ pc[a] = "api_created_self"
    /\ LockFree
    /\ PairNotice(a, "created_self", userID[a], PairCreatedMsg(pair[a]), "api_created_partner")
    /\ UNCHANGED <<hubVars, netVars, envVars, userID, pair, msg, nframe, errtext, histVars>>

\* CreatePair lines 100-113: pair_created to the partner, then 200.
ApiCreatedPartner(a) ==
    /\ pc[a] = "api_created_partner"
    /\ LockFree
    /\ PairNotice(a, "created_partner", CreatedPartnerOf(pair[a], userID[a]),
                  PairCreatedMsg(pair[a]), "api_200")
    /\ UNCHANGED <<hubVars, netVars, envVars, userID, pair, msg, nframe, errtext, histVars>>

\* PairRepository.GetByID: the rows with the id.
GetByID(id) == {p \in pairs : p.ID = id}

\* PairService.GetPairByID on an id that matches no row: the error the
\* documented answer (404) stands for.
GetPairByIDNotFound == "pair not found"

\* PairService.DeletePair lines 293-296 on an id that matches no row: the
\* repository's error, wrapped.
DeletePairNotFound == "pair not found: pair not found: no rows in result set"

\* DeletePair lines 136-139 and 166-171: the status for an error, by its
\* text.
DeleteStatus(text) ==
    IF text = "pair not found" THEN "api_404"
    ELSE IF text = "user is not a member of this pair" THEN "api_403"
    ELSE "api_500"

\* DeletePair lines 117-155: the pair is looked up and the requester must
\* be a member.
ApiDeletePair(a) ==
    /\ pc[a] = "api"
    /\ \E u \in Users, id \in {"p1", "p2", ""} :
          /\ userID' = [userID EXCEPT ![a] = u]
          /\ IF id = "" THEN Respond(a, "api_400")
             ELSE IF GetByID(id) = {} THEN Respond(a, DeleteStatus(GetPairByIDNotFound))
             ELSE \E row \in GetByID(id) :
                     /\ pc' = [pc EXCEPT ![a] = IF row.UserAID # u /\ row.UserBID # u
                                                THEN "api_403" ELSE "api_delete"]
                     /\ pair' = [pair EXCEPT ![a] = row]
                     /\ UNCHANGED call
    /\ UNCHANGED <<hubVars, netVars, envVars, msg, nframe, errtext, histVars>>

\* DeletePair lines 157-175 with PairService.DeletePair lines 291-309: the
\* pair is looked up again, the membership checked again, the row deleted.
ApiDelete(a) ==
    /\ pc[a] = "api_delete"
    /\ IF GetByID(pair[a].ID) = {}
       THEN /\ pc' = [pc EXCEPT ![a] = DeleteStatus(DeletePairNotFound)]
            /\ UNCHANGED pairs
       ELSE \E row \in GetByID(pair[a].ID) :
               IF row.UserAID # userID[a] /\ row.UserBID # userID[a]
               THEN /\ pc' = [pc EXCEPT ![a] = DeleteStatus("user is not a member of this pair")]
                    /\ UNCHANGED pairs
               ELSE /\ pairs' = pairs \ {row}
                    /\ pc' = [pc EXCEPT ![a] = "api_deleted_self"]
    /\ UNCHANGED <<hubVars, netVars, token, now, userID, pair, msg, nframe, call, errtext, histVars>>

\* DeletePair lines 182-192: pair_deleted to the requester.
ApiDeletedSelf(a) ==
    /\ pc[a] = "api_deleted_self"
    /\ LockFree
    /\ PairNotice(a, "deleted_self", userID[a], PairDeletedMsg, "api_deleted_partner")
    /\ UNCHANGED <<hubVars, netVars, envVars, userID, pair, msg, nframe, errtext, histVars>>

\* DeletePair lines 194-205: pair_deleted to the partner, then 204.
ApiDeletedPartner(a) ==
    /\ pc[a] = "api_deleted_partner"
    /\ LockFree
    /\ PairNotice(a, "deleted_partner", PartnerOf(pair[a], userID[a]),
                  PairDeletedMsg, "api_204")
    /\ UNCHANGED <<hubVars, netVars, envVars, userID, pair, msg, nframe, errtext, histVars>>

\* The connections and the pair API together: x and y connect, with or
\* without the pair (x, y) in the table, and one request creates or deletes
\* a pair; the connections send no frames.
PairInit ==
    /\ token \in {[c \in Conns |-> IF c = 1 THEN t ELSE "tok_y"] : t \in {"tok_x", "tok_y"}}
    /\ pairs \in {{}, {[ID |-> "p1", UserAID |-> "x", UserBID |-> "y"]}}
    /\ connections = [u \in Users |-> NoConn]
    /\ mu = {}
    /\ closed = {}
    /\ broken = {}
    /\ outbox = [c \in Conns |-> <<>>]
    /\ now = 1
    /\ pc = [c \in Ctxs |-> IF c \in ApiCtxs THEN "api" ELSE "idle"]
    /\ userID = [c \in Ctxs |-> NoUser]
    /\ pair = [c \in Ctxs |-> NoPair]
    /\ msg = [c \in Ctxs |-> ZeroMsg]
    /\ nframe = [c \in Ctxs |-> 0]
    /\ call = [c \in Ctxs |-> NoCall]
    /\ errtext = [c \in Ctxs |-> ""]
    /\ sends = {}
    /\ regLog = [u \in Users |-> <<>>]
    /\ lastHubOp = [u \in Users |-> "none"]
    /\ unregCalls = [c \in Conns |-> 0]
    /\ dbCalls = {}
    /\ hubLog = {}
    /\ frameLog = {}
    /\ trigLog = {}

PairNext ==
    \/ \E c \in Conns :
          \/ Connect(c)
          \/ RegisterLock(c)
          \/ Register(c)
          \/ GetPair(c)
          \/ ReadFail(c)
          \/ DeferLock(c)
          \/ DeferUnregister(c)
          \/ Close(c)
    \/ \E c \in Ctxs :
          \/ SendLookup(c)
          \/ SendWrite(c)
          \/ EvictLock(c)
          \/ Evict(c)
    \/ \E a \in ApiCtxs :
          \/ ApiCreatePair(a)
          \/ ApiCreateCheckPartner(a)
          \/ ApiCreateInsert(a)
          \/ ApiCreatedSelf(a)
          \/ ApiCreatedPartner(a)
          \/ ApiDeletePair(a)
          \/ ApiDelete(a)
          \/ ApiDeletedSelf(a)
          \/ ApiDeletedPartner(a)

PairSpec == PairInit /\ [][PairNext]_vars

\* Two requests to the pair API at the same time, with or without the pair
\* (x, y) in the table; nobody is connected.
RequestsInit ==
    /\ token \in {[c \in Conns |-> IF c = 1 THEN "tok_x" ELSE "tok_y"]}
    /\ pairs \in {{}, {[ID |-> "p1", UserAID |-> "x", UserBID |-> "y"]}}
    /\ connections = [u \in Users |-> NoConn]
    /\ mu = {}
    /\ closed = {}
    /\ broken = {}
    /\ outbox = [c \in Conns |-> <<>>]
    /\ now = 1
    /\ pc = [c \in Conns \cup RequestCtxs |-> IF c \in RequestCtxs THEN "api" ELSE "idle"]
    /\ userID = [c \in Conns \cup RequestCtxs |-> NoUser]
    /\ pair = [c \in Conns \cup RequestCtxs |-> NoPair]
    /\ msg = [c \in Conns \cup RequestCtxs |-> ZeroMsg]
    /\ nframe = [c \in Conns \cup RequestCtxs |-> 0]
    /\ call = [c \in Conns \cup RequestCtxs |-> NoCall]
    /\ errtext = [c \in Conns \cup RequestCtxs |-> ""]
    /\ sends = {}
    /\ regLog = [u \in Users |-> <<>>]
    /\ lastHubOp = [u \in Users |-> "none"]
    /\ unregCalls = [c \in Conns |-> 0]
    /\ dbCalls = {}
    /\ hubLog = {}
    /\ frameLog = {}
    /\ trigLog = {}

RequestsNext ==
    \E a \in RequestCtxs :
        \/ ApiCreatePair(a)
        \/ ApiCreateCheckPartner(a)
        \/ ApiCreateInsert(a)
        \/ ApiCreatedSelf(a)
        \/ ApiCreatedPartner(a)
        \/ ApiDeletePair(a)
        \/ ApiDelete(a)
        \/ ApiDeletedSelf(a)
        \/ ApiDeletedPartner(a)

RequestsSpec == RequestsInit /\ [][RequestsNext]_vars

\* ----------------------------------------------------------- other frames
\* The frames of clients that report uploads or send types the server does
\* not know, and trigger no photos.
UploadFrames == {f \in Frames : ~f.json \/ f.msg.Type # "trigger_photo"}

UploadNext ==
    \E c \in Conns :
        \/ Connect(c)
        \/ RegisterLock(c)
        \/ Register(c)
        \/ GetPair(c)
        \/ SendLookup(c)
        \/ SendWrite(c)
        \/ EvictLock(c)
        \/ Evict(c)
        \/ ReadFail(c)
        \/ ReadFrame(c, UploadFrames)
        \/ PhotoUpdate(c)
        \/ SendError(c)
        \/ DeferLock(c)
        \/ DeferUnregister(c)
        \/ Close(c)

UploadSpec == Init /\ [][UploadNext]_vars

\* -------------------------------------------------------------- all frames
\* Clients that send every kind of frame.
FullNext ==
    \E c \in Conns :
        \/ Connect(c)
        \/ RegisterLock(c)
        \/ Register(c)
        \/ GetPair(c)
        \/ SendLookup(c)
        \/ SendWrite(c)
        \/ EvictLock(c)
        \/ Evict(c)
        \/ ReadFail(c)
        \/ ReadFrame(c, Frames)
        \/ Trigger(c)
        \/ TriggerPhoto(c)
        \/ PhotoUpdate(c)
        \/ SendError(c)
        \/ DeferLock(c)
        \/ DeferUnregister(c)
        \/ Close(c)

FullSpec == Init /\ [][FullNext]_vars

\* ------------------------------------------------------------ passing time
\* Time passes between the steps of the handlers.
Tick ==
    /\ now < MaxNow
    /\ now' = now + 1
    /\ UNCHANGED <<hubVars, netVars, pairs, token, ctxVars, histVars>>

ClockNext == Next \/ Tick

ClockSpec == Init /\ [][ClockNext]_vars

\* ---------------------------------------------------------- blocked writes
\* A write on a connection may never complete, and a peer may never send a
\* frame; everything a handler does on the hub completes: a goroutine
\* waiting for h.mu gets it once it stays free, and one that holds it runs
\* on to its Unlock.
HubFairness ==
    \A c \in Conns :
        /\ WF_vars(RegisterLock(c))
        /\ WF_vars(Register(c))
        /\ WF_vars(SendLookup(c))
        /\ WF_vars(TriggerPhoto(c))
        /\ WF_vars(EvictLock(c))
        /\ WF_vars(Evict(c))
        /\ WF_vars(DeferLock(c))
        /\ WF_vars(DeferUnregister(c))

BlockedWriteSpec == Init /\ [][Next]_vars /\ HubFairness

\* --------------------------------------------------------- a slow partner
\* The write of partner_status to the partner's connection may never
\* complete; every other write, the pairing lookup and the deferred Close
\* do, as does everything on the hub.
SlowPartnerFairness ==
    /\ HubFairness
    /\ \A c \in Conns :
          /\ WF_vars(GetPair(c))
          /\ WF_vars(SendWrite(c) /\ call[c].site # "notify")
          /\ WF_vars(Close(c))

SlowPartnerSpec == Init /\ [][Next]_vars /\ SlowPartnerFairness


\* ------------------------------------------------------ completing writes
\* Every write on a connection that SendToUser starts completes (with nil or
\* with an error), and everything on the hub does; peers may stay silent and
\* the handler's own steps outside the hub need not run.
CompletingWriteFairness ==
    /\ HubFairness
    /\ \A c \in Conns : WF_vars(SendWrite(c))

CompletingWriteSpec == Init /\ [][Next]_vars /\ CompletingWriteFairness


\* -------------------------------------------------------- pairing changes
\* The rows the pairs table holds while x's pairing changes from y to z and
\* back: the members in the order CreatePair gives them, never twice the
\* same two members (unique_pair), never one user with itself
\* (no_self_pair).
PairRows ==
    {[ID |-> "p1", UserAID |-> "x", UserBID |-> "y"],
     [ID |-> "p2", UserAID |-> "x", UserBID |-> "z"]}

\* PairRepository.Create: the INSERT of a request that creates a pair.  Of
\* the request this keeps the write to the table only; its notices carry
\* pair_created (ApiCreatedSelf, ApiCreatedPartner).
PairRepositoryCreate ==
    /\ \E row \in PairRows \ pairs : pairs' = pairs \cup {row}
    /\ UNCHANGED <<hubVars, netVars, token, now, ctxVars, histVars>>

\* PairRepository.Delete: the DELETE of a request that deletes a pair.
PairRepositoryDelete ==
    /\ \E row \in pairs : pairs' = pairs \ {row}
    /\ UNCHANGED <<hubVars, netVars, token, now, ctxVars, histVars>>

\* The frames of clients that trigger photos with a timestamp of their own.
StampedTriggers ==
    {f \in Frames : f.json /\ f.msg.Type = "trigger_photo" /\ f.msg.Timestamp # 0}

\* x and y connect, paired at first; x's client triggers photos and y's
\* only listens, while pairs are created and deleted.
RepairInit ==
    /\ Init
    /\ token[2] = "tok_y"

RepairNext ==
    \/ PairRepositoryCreate
    \/ PairRepositoryDelete
    \/ ReadFrame(1, StampedTriggers)
    \/ \E c \in Conns :
          \/ Connect(c)
          \/ RegisterLock(c)
          \/ Register(c)
          \/ GetPair(c)
          \/ SendLookup(c)
          \/ SendWrite(c)
          \/ EvictLock(c)
          \/ Evict(c)
          \/ ReadFail(c)
          \/ Trigger(c)
          \/ TriggerPhoto(c)
          \/ SendError(c)
          \/ DeferLock(c)
          \/ DeferUnregister(c)
          \/ Close(c)

RepairSpec == RepairInit /\ [][RepairNext]_vars


\* ================================================================== claims
\* The number of messages in a handle's outbox that satisfy P.
CountIn(seq, P(_)) == Cardinality({i \in DOMAIN seq : P(seq[i])})

IsPartnerStatus(e, online) ==
    e.msg.Type = "partner_status" /\ e.msg.Online = online

\* C1: for every identity, once Register has run for it and as long as no
\* Unregister follows, the registry's entry for it is the handle registered
\* last; every handle registered for it that is not its entry has been
\* closed; and no handle is the entry of two identities.
C1_OneLiveHandle ==
    \A u \in Users :
        /\ lastHubOp[u] = "register" =>
              /\ regLog[u] # <<>>
              /\ connections[u] = regLog[u][Len(regLog[u])]
        /\ \A i \in 1..Len(regLog[u]) :
              regLog[u][i] # connections[u] => regLog[u][i] \in closed
        /\ \A v \in Users \ {u} :
              connections[u] # NoConn => connections[v] # connections[u]

\* Two handles were registered for one identity, and the second is its entry.
C1_Witness ==
    \E u \in Users :
        /\ Len(regLog[u]) >= 2
        /\ lastHubOp[u] = "register"
        /\ connections[u] = regLog[u][2]
        /\ regLog[u][1] \in closed

\* C2: when X is unregistered while its partner Y is online, Y receives
\* exactly one partner_status with online = false: a handle that is still
\* its identity's entry and still up holds one such message for every
\* Unregister that removed the partner's entry while it was registered.
C2_PartnerToldOffline ==
    \A h \in Conns :
        (Healthy(h) /\ userID[h] # NoUser /\ connections[userID[h]] = h) =>
            CountIn(outbox[h], LAMBDA e : IsPartnerStatus(e, "false"))
              = Cardinality({r \in hubLog : /\ r.op = "unregister"
                                            /\ r.entry # NoConn
                                            /\ r.partnerEntry = h})

\* A handle is online: it is up and it is its identity's registry entry.
Online(h) == Healthy(h) /\ userID[h] # NoUser /\ connections[userID[h]] = h

\* The positions in handle h's outbox of the messages satisfying P that
\* context c wrote while handling one of the frames K.
Received(h, c, K, P(_)) ==
    {i \in DOMAIN outbox[h] :
        outbox[h][i].by = c /\ outbox[h][i].frame \in K /\ P(outbox[h][i].msg)}

\* The same over all handles.
Delivered(c, K, P(_)) ==
    UNION {{<<h, i>> : i \in Received(h, c, K, P)} : h \in Conns}

AnyFrame == 0..MaxFrames

IsTakePhoto(m) == m.Type = "take_photo"
IsError(m) == m.Type = "error"
IsOnlineTrue(m) == m.Type = "partner_status" /\ m.Online = "true"

\* Context c has finished handling its frame k.
Handled(c, k) ==
    \/ nframe[c] > k
    \/ nframe[c] = k /\ pc[c] \in {"read", "defer_unregister", "defer_unregister_cs",
                                   "close", "done"}

\* Context c has finished its opening sequence (the pair_status send returned).
Opened(c) == \E s \in sends : s.by = c /\ s.site = "pair_status"

TakeSites == {"take_initiator", "take_partner"}

\* C3: for every registration of a paired identity, the registering handler
\* delivers at most one partner_status with online = true; the partner's
\* handle, if it was the partner's entry at the registration and is still
\* online when the opening sequence is over, holds exactly one from that
\* handler; a handle never holds more of them than its partner has
\* registrations; and when the send finds no entry for the partner, the
\* handler has delivered no partner_status to any handle and holds none.
C3_PartnerToldOnline ==
    /\ \A r \in hubLog : r.op = "register" =>
          /\ Cardinality(Delivered(r.by, AnyFrame, IsOnlineTrue)) <= 1
          /\ (r.partnerEntry # NoConn /\ Opened(r.by) /\ Online(r.partnerEntry)) =>
                Cardinality(Received(r.partnerEntry, r.by, {0}, IsOnlineTrue)) = 1
          /\ (\E s \in sends : s.by = r.by /\ s.site = "notify" /\ s.result = "NotConnected") =>
                /\ Delivered(r.by, AnyFrame, LAMBDA m : m.Type = "partner_status") = {}
                /\ call[r.by].message.Type # "partner_status"
    /\ \A h \in Conns :
          CountIn(outbox[h], LAMBDA e : IsPartnerStatus(e, "true"))
            <= Cardinality({r \in hubLog :
                             /\ r.op = "register"
                             /\ \E row \in GetByUserID(r.user) :
                                   PartnerOf(row, r.user) = userID[h]})

\* One handler registered while its partner had no entry and its send found
\* none; the other registered while the first was the partner's entry, and
\* the first, still online, holds its partner_status.
C3_Witness ==
    /\ \E s \in sends : s.site = "notify" /\ s.result = "NotConnected"
    /\ \E r \in hubLog :
          /\ r.op = "register" /\ r.partnerEntry # NoConn
          /\ Opened(r.by) /\ Online(r.partnerEntry)
          /\ Received(r.partnerEntry, r.by, {0}, IsOnlineTrue) # {}

\* C4: for every trigger_photo frame with a non-zero timestamp t, every
\* take_photo written for it names the sender as initiator and carries t, no
\* handle gets two of them, and when the partner had an entry at the IsOnline
\* check and both the sender's handle and that entry are online once the
\* frame is handled, each of the two holds exactly one.
C4_BothReceiveTakePhoto ==
    \A f \in frameLog :
        (f.json /\ f.msg.Type = "trigger_photo" /\ f.msg.Timestamp # 0) =>
            /\ \A h \in Conns :
                  /\ Cardinality(Received(h, f.by, {f.frame}, IsTakePhoto)) <= 1
                  /\ \A i \in Received(h, f.by, {f.frame}, IsTakePhoto) :
                        /\ outbox[h][i].msg.InitiatorID = userID[f.by]
                        /\ outbox[h][i].msg.Timestamp = f.msg.Timestamp
            /\ \A r \in trigLog :
                  ( /\ r.by = f.by /\ r.frame = f.frame
                    /\ r.partnerEntry # NoConn
                    /\ Handled(f.by, f.frame)
                    /\ Online(f.by) /\ Online(r.partnerEntry) ) =>
                      /\ Cardinality(Received(f.by, f.by, {f.frame}, IsTakePhoto)) = 1
                      /\ Cardinality(Received(r.partnerEntry, f.by, {f.frame}, IsTakePhoto)) = 1

\* A trigger with the client's timestamp was handled, and the sender's and
\* the partner's handles, both online, hold its take_photo.
C4_Witness ==
    \E f \in frameLog :
        /\ f.json /\ f.msg.Type = "trigger_photo" /\ f.msg.Timestamp = ClientTs
        /\ Handled(f.by, f.frame) /\ Online(f.by)
        /\ \E h \in Conns \ {f.by} :
              /\ Online(h)
              /\ \E i \in DOMAIN outbox[h] :
                    /\ outbox[h][i].by = f.by
                    /\ outbox[h][i].msg.Type = "take_photo"
                    /\ outbox[h][i].msg.Timestamp = ClientTs
        /\ \E i \in DOMAIN outbox[f.by] :
              /\ outbox[f.by][i].by = f.by
              /\ outbox[f.by][i].msg.Type = "take_photo"
              /\ outbox[f.by][i].msg.Timestamp = ClientTs

\* C5: for every trigger_photo frame of an identity that is in no pairing,
\* no take_photo is written to any handle and no take_photo send is made or
\* under way; at most one error is written for the frame; and once the frame
\* is handled the sender's handle, if it is still up, holds exactly one
\* error for it, saying that the sender is not in a pair.
C5_UnpairedTriggerOneError ==
    \A f \in frameLog :
        (f.json /\ f.msg.Type = "trigger_photo" /\ GetByUserID(userID[f.by]) = {}) =>
            /\ Delivered(f.by, {f.frame}, IsTakePhoto) = {}
            /\ \A s \in sends : (s.by = f.by /\ s.frame = f.frame) => s.site \notin TakeSites
            /\ nframe[f.by] = f.frame => call[f.by].site \notin TakeSites
            /\ Cardinality(Delivered(f.by, {f.frame}, IsError)) <= 1
            /\ (Handled(f.by, f.frame) /\ Healthy(f.by)) =>
                  /\ Cardinality(Received(f.by, f.by, {f.frame}, IsError)) = 1
                  /\ \A i \in Received(f.by, f.by, {f.frame}, IsError) :
                        outbox[f.by][i].msg.Message = "You are not in a pair"

\* An unpaired identity's trigger was handled and its handle holds the error.
C5_Witness ==
    \E f \in frameLog :
        /\ f.json /\ f.msg.Type = "trigger_photo"
        /\ userID[f.by] = "z"
        /\ Handled(f.by, f.frame) /\ Healthy(f.by)
        /\ \E i \in DOMAIN outbox[f.by] :
              /\ outbox[f.by][i].frame = f.frame
              /\ outbox[f.by][i].msg.Message = "You are not in a pair"

\* C6: for every TriggerPhoto call that found no entry for the partner, no
\* take_photo for that trigger is in any handle's outbox, now or later, and
\* no take_photo send for it is made or under way; at most one error is
\* written for the frame; and once the frame is handled the sender's handle,
\* if it is online, holds exactly one error, saying the partner is offline.
C6_OfflinePartnerNoTakePhoto ==
    \A r \in trigLog :
        r.partnerEntry = NoConn =>
            /\ Delivered(r.by, {r.frame}, IsTakePhoto) = {}
            /\ \A s \in sends : (s.by = r.by /\ s.frame = r.frame) => s.site \notin TakeSites
            /\ nframe[r.by] = r.frame => call[r.by].site \notin TakeSites
            /\ Cardinality(Delivered(r.by, {r.frame}, IsError)) <= 1
            /\ (Handled(r.by, r.frame) /\ Online(r.by)) =>
                  /\ Cardinality(Received(r.by, r.by, {r.frame}, IsError)) = 1
                  /\ \A i \in Received(r.by, r.by, {r.frame}, IsError) :
                        outbox[r.by][i].msg.Message = "Partner is offline"

\* A trigger found the partner without an entry and was answered with the
\* error; the partner has registered and finished its opening since.
C6_Witness ==
    \E r \in trigLog :
        /\ r.partnerEntry = NoConn
        /\ Handled(r.by, r.frame) /\ Online(r.by)
        /\ \E i \in DOMAIN outbox[r.by] :
              outbox[r.by][i].frame = r.frame /\ outbox[r.by][i].msg.Message = "Partner is offline"
        /\ \E h \in Conns \ {r.by} :
              /\ Online(h) /\ Opened(h)
              /\ pair[r.by] = NoPair
              /\ userID[h] = "y" /\ userID[r.by] = "x"

\* The record of a SendToUser call of context c that returns e.
SendRecord(c, e, conn) ==
    [by |-> c, frame |-> nframe[c], site |-> call[c].site,
     target |-> call[c].target, conn |-> conn, result |-> e]

\* A write that fails takes its caller to Unregister(target) and nowhere
\* else; the call then removes the target's entry, returns the send-failed
\* error, writes nothing, and does not start the same send again.
C7_Step ==
    \A c \in Conns :
        /\ (pc[c] = "send_write" /\ pc'[c] # "send_write") =>
              \/ /\ outbox'[call[c].conn] # outbox[call[c].conn]
                 /\ SendRecord(c, "nil", call[c].conn) \in sends'
              \/ /\ pc'[c] = "evict"
                 /\ call'[c] = call[c]
                 /\ outbox' = outbox /\ sends' = sends
        /\ (pc[c] = "evict" /\ pc'[c] # "evict") =>
              /\ pc'[c] = "evict_cs"
              /\ call'[c] = call[c]
              /\ outbox' = outbox /\ sends' = sends
        /\ (pc[c] = "evict_cs" /\ pc'[c] # "evict_cs") =>
              /\ connections'[call[c].target] = NoConn
              /\ sends' = sends \cup {SendRecord(c, "SendFailed", call[c].conn)}
              /\ outbox' = outbox
              /\ call'[c].site # call[c].site

\* No call site sends twice for one frame, and a send that failed wrote
\* nothing to a handle that is still up.
C7_Once ==
    /\ \A s1, s2 \in sends :
          (s1.by = s2.by /\ s1.frame = s2.frame /\ s1.site = s2.site) => s1 = s2
    /\ \A s \in sends :
          s.result = "SendFailed" => s.conn # NoConn /\ ~Healthy(s.conn)

\* C7: when SendToUser has a handle for the identity and the write on it
\* fails, the call goes on to Unregister the identity, which removes its
\* registry entry; the call returns the send-failed error, writes nothing,
\* and the send is not made again.
C7_FailedWriteEvicts == [][C7_Step /\ C7_Once']_vars

\* A send failed, and its target has no entry.
C7_Witness ==
    \E s \in sends :
        /\ s.result = "SendFailed"
        /\ s.conn # NoConn
        /\ connections[s.target] = NoConn
        /\ s.conn \in closed

\* C8: a SendToUser call whose lookup finds no entry for the identity
\* returns the not-connected error, writes to no handle, and leaves the
\* registry, the lock and every handle as they were.
C8_UnknownIdentityNoEffect ==
    [][\A c \in Conns :
          ( /\ pc[c] = "send_lookup"
            /\ connections[call[c].target] = NoConn
            /\ (pc'[c] # pc[c] \/ call'[c] # call[c]) ) =>
              /\ sends' = sends \cup {SendRecord(c, "NotConnected", NoConn)}
              /\ outbox' = outbox
              /\ connections' = connections
              /\ mu' = mu
              /\ closed' = closed /\ broken' = broken]_vars

\* A send returned the not-connected error, and the registry has entries.
C8_Witness ==
    \E s \in sends :
        /\ s.result = "NotConnected"
        /\ s.conn = NoConn
        /\ \E u \in Users : connections[u] # NoConn

IsInvalidFormat(m) == m.Type = "error" /\ m.Message = "Invalid message format"

\* The undecodable frames context c has read, and those it has handled.
BadFrames(c) == {f \in frameLog : f.by = c /\ ~f.json}
HandledBadFrames(c) == {f \in BadFrames(c) : Handled(c, f.frame)}

\* Every undecodable frame is answered on its own connection only, at most
\* once; a connection that is up holds one error per handled frame.
C9_Count ==
    \A c \in Conns :
        /\ \A f \in BadFrames(c) :
              /\ Cardinality(Delivered(c, {f.frame}, LAMBDA m : TRUE)) <= 1
              /\ Delivered(c, {f.frame}, LAMBDA m : TRUE)
                    = {<<c, i>> : i \in Received(c, c, {f.frame}, IsInvalidFormat)}
        /\ Healthy(c) =>
              Cardinality(Received(c, c, {f.frame : f \in HandledBadFrames(c)}, IsInvalidFormat))
                = Cardinality(HandledBadFrames(c))

\* Reading an undecodable frame leads to sendError, sendError leads back to
\* the read, and neither touches the registry or closes a handle.
C9_Step ==
    \A c \in Conns :
        /\ (BadFrames(c)' # BadFrames(c)) =>
              /\ pc[c] = "read" /\ pc'[c] = "send_error"
              /\ errtext'[c] = "Invalid message format"
              /\ connections' = connections /\ closed' = closed /\ mu' = mu
        /\ (pc[c] = "send_error" /\ pc'[c] # "send_error") =>
              /\ pc'[c] = "read"
              /\ connections' = connections /\ closed' = closed /\ mu' = mu

\* C9: N undecodable frames read on a connection that stays up are answered
\* with exactly N error messages on that connection, each step of the
\* handling returns to the read loop, and none changes the registry.
C9_UndecodableFrames == [][C9_Step /\ C9_Count']_vars

\* A connection that read two undecodable frames is online, back at the
\* read, and holds two errors.
C9_Witness ==
    \E c \in Conns :
        /\ Cardinality(BadFrames(c)) = 2
        /\ pc[c] = "read" /\ Online(c)
        /\ Cardinality(Received(c, c, AnyFrame, IsInvalidFormat)) = 2

\* The handler of c has registered its identity.
Registered(c) == \E r \in hubLog : r.op = "register" /\ r.by = c

\* Up to the end of its read loop a handler has made no deferred Unregister
\* call; from then on it makes one, for its own identity, and only after it
\* does the handler release its connection.
C10_Once ==
    \A c \in Conns :
        /\ unregCalls[c] <= 1
        /\ unregCalls[c] = 1 <=> pc[c] \in {"close", "done"}
        /\ unregCalls[c] = 1 =>
              /\ Registered(c)
              /\ connections[userID[c]] # c
              /\ Cardinality({r \in hubLog : r.op = "unregister" /\ r.by = c /\ r.kind = "defer"}) = 1
              /\ \A r \in hubLog :
                    (r.op = "unregister" /\ r.by = c /\ r.kind = "defer") => r.user = userID[c]
        /\ (Registered(c) /\ pc[c] = "done") => unregCalls[c] = 1

\* C10: a handler that registered an identity makes exactly one deferred
\* Unregister call for that identity when its read loop ends, by a failed
\* read or by a panic, and makes it before it releases its connection; and
\* once the loop has ended, the handler's connection eventually is not its
\* identity's registry entry, the Unregister call is made and the connection
\* is released.
C10_UnregisterOnExit ==
    /\ []C10_Once
    /\ \A c \in Conns :
          (pc[c] = "defer_unregister") ~>
              (pc[c] = "done" /\ unregCalls[c] = 1 /\ connections[userID[c]] # c)

\* One handler ended by a panic before its opening sequence was over, the
\* other by a failed read, and both made their Unregister call.
C10_Witness ==
    \E c, d \in Conns :
        /\ c # d
        /\ pc[c] = "done" /\ Registered(c) /\ ~Opened(c) /\ unregCalls[c] = 1
        /\ pc[d] = "done" /\ Registered(d) /\ Opened(d) /\ d \in broken /\ unregCalls[d] = 1

\* The request of handle c carries no token or one that does not validate.
BadToken(c) == token[c] \notin {"tok_x", "tok_y", "tok_z"}

\* A rejected request has no identity, is no registry entry, was never
\* registered or unregistered, and has sent and received nothing.
C11_Untouched ==
    \A c \in Conns :
        BadToken(c) =>
            /\ pc[c] \in {"idle", "unauthorized"}
            /\ userID[c] = NoUser
            /\ \A u \in Users :
                  /\ connections[u] # c
                  /\ \A i \in DOMAIN regLog[u] : regLog[u][i] # c
            /\ \A r \in hubLog : r.by # c /\ r.entry # c
            /\ \A s \in sends : s.by # c /\ s.conn # c
            /\ Delivered(c, AnyFrame, LAMBDA m : TRUE) = {}
            /\ outbox[c] = <<>>
            /\ c \notin closed /\ c \notin mu

\* The one step of such a request is the rejection, and it changes neither
\* the registry nor any handle.
C11_Step ==
    \A c \in Conns :
        (BadToken(c) /\ pc'[c] # pc[c]) =>
            /\ pc[c] = "idle" /\ pc'[c] = "unauthorized"
            /\ connections' = connections /\ mu' = mu
            /\ closed' = closed /\ outbox' = outbox /\ sends' = sends

\* C11: a connection request whose token is absent or does not validate is
\* rejected as unauthorized; it never creates, replaces or removes a
\* registry entry, and no partner_status, pair_status or other message is
\* sent for it or to it.
C11_UnauthorizedRejected == [][C11_Step /\ C11_Untouched']_vars

\* A request with a token that does not validate was rejected while x was
\* registered and its opening sequence over.
C11_Witness ==
    \E c \in Conns :
        /\ token[c] = "garbage" /\ pc[c] = "unauthorized"
        /\ \E d \in Conns \ {c} : Online(d) /\ Opened(d)

\* The positions inside the map-mutating critical sections of Register,
\* the deferred Unregister and the Unregister of SendToUser's eviction.
CriticalSections == {"register_cs", "evict_cs", "defer_unregister_cs"}
InCriticalSection == {c \in Conns : pc[c] \in CriticalSections}

\* At most one context is inside a critical section, and it is the one that
\* holds the lock.
C12_Exclusive ==
    /\ Cardinality(InCriticalSection) <= 1
    /\ mu = InCriticalSection

\* The map changes only in the step that ends a critical section, and the
\* lookups of SendToUser and IsOnline read it only while nobody is in one.
C12_Step ==
    /\ connections' # connections =>
          \E c \in InCriticalSection : pc'[c] \notin CriticalSections
    /\ \A c \in Conns :
          ( \/ pc[c] = "send_lookup" /\ (pc'[c] # pc[c] \/ call'[c] # call[c])
            \/ pc[c] = "trigger_online" /\ pc'[c] # pc[c] ) =>
              /\ InCriticalSection = {}
              /\ connections' = connections

\* C12: Register, Unregister and the eviction inside SendToUser exclude one
\* another: never are two contexts inside a map-mutating critical section,
\* the map changes only there, and no IsOnline or SendToUser lookup reads
\* the map while a context is inside one.
C12_MutualExclusion == [][C12_Step /\ C12_Exclusive']_vars

\* One context is inside Register's critical section while the other waits
\* to evict an identity after a failed write.
C12_Witness ==
    \E c, d \in Conns :
        /\ pc[c] = "register_cs"
        /\ pc[d] = "evict"

\* The positions at which a context writes a message to a connection.
WritePositions == {"send_write", "send_error"}

\* The positions at which a context is inside a call on the hub that does
\* not write.
HubPositions ==
    {"register", "register_cs", "send_lookup", "trigger_online",
     "evict", "evict_cs", "defer_unregister", "defer_unregister_cs"}

\* A context that is writing, or that has a write before it, holds no lock.
C13_NoLockAtWrite ==
    \A c \in Conns : pc[c] \in WritePositions => c \notin mu

\* A message is written, or a write fails, only in a step of a context
\* that does not hold the lock.
C13_Step ==
    (outbox' # outbox \/ broken' # broken) =>
        \E c \in Conns :
            /\ pc[c] \in WritePositions \cup {"read"}
            /\ pc'[c] # pc[c] \/ call'[c] # call[c]
            /\ c \notin mu

\* C13: no context holds the registry lock at the write of a message, so a
\* write that never completes keeps nobody from the hub: whatever writes
\* stay pending, no context stays for ever inside a Register, an Unregister,
\* an IsOnline check or a SendToUser lookup that it has begun.
C13_WritesOutsideLock ==
    /\ []C13_NoLockAtWrite
    /\ [][C13_Step]_vars
    /\ \A c \in Conns : []<>(pc[c] \notin HubPositions)

\* One context is at a write to the other's connection while the other is
\* inside Register's critical section.
C13_Witness ==
    \E c, d \in Conns :
        /\ c # d
        /\ pc[c] = "send_write" /\ call[c].conn # c
        /\ pc[d] \in CriticalSections

\* C14: the partner_status notification caused by registering or
\* unregistering X does not run in X's own context: even when the write to
\* the partner's connection never completes, a handler that has registered
\* finishes its opening sequence (pair_status sent, read loop reached), and
\* a handler whose loop has ended finishes its teardown.
C14_NotifyDetached ==
    \A c \in Conns :
        /\ (pc[c] = "getpair") ~> Opened(c)
        /\ (pc[c] = "defer_unregister") ~> (pc[c] = "done")

\* ------------------------------------------------------------------- C15
PairSites == {"created_self", "created_partner", "deleted_self", "deleted_partner"}

\* The position at which the pair handler asks IsOnline before each notice.
CheckAt ==
    [created_self |-> "api_created_self", created_partner |-> "api_created_partner",
     deleted_self |-> "api_deleted_self", deleted_partner |-> "api_deleted_partner"]

\* The member of the request's pair that a notice is meant for.
MemberAt(a, site) ==
    IF site \in {"created_self", "deleted_self"} THEN userID[a]
    ELSE CHOOSE m \in {pair[a].UserAID, pair[a].UserBID} : m # userID[a]

NoticeAt(a, site) ==
    IF site \in {"created_self", "created_partner"}
    THEN PairCreatedMsg(pair[a]) ELSE PairDeletedMsg

\* The positions in handle h's outbox of what request a wrote.
FromRequest(a, h) == {i \in DOMAIN outbox[h] : outbox[h][i].by = a}

\* Request a is past the check for the notice of a site and made no call.
FoundOffline(a, site) ==
    /\ call[a].site # site
    /\ ~\E r \in sends : r.by = a /\ r.site = site
    /\ CASE site = "created_self" ->
                pc[a] \in {"api_created_partner", "api_200"} \/ call[a].site = "created_partner"
         [] site = "created_partner" -> pc[a] = "api_200"
         [] site = "deleted_self" ->
                pc[a] \in {"api_deleted_partner", "api_204"} \/ call[a].site = "deleted_partner"
         [] OTHER -> pc[a] = "api_204"

\* What requests have written: only pair_created and pair_deleted, each into
\* the handle a completed send names, at most one per member; and a member
\* found offline holds nothing from the request on any of its handles,
\* whenever it registers.
C15_NoBacklog ==
    \A a \in ApiCtxs :
        /\ \A h \in Conns : \A i \in FromRequest(a, h) :
              /\ outbox[h][i].msg.Type \in {"pair_created", "pair_deleted"}
              /\ \E r \in sends :
                    /\ r.by = a /\ r.result = "nil" /\ r.conn = h
                    /\ r.target = userID[h]
                    /\ r.target = MemberAt(a, r.site)
                    /\ outbox[h][i].msg = NoticeAt(a, r.site)
        /\ \A u \in Users :
              Cardinality(UNION {{<<h, i>> : i \in FromRequest(a, h)} :
                                   h \in {g \in Conns : userID[g] = u}}) <= 1
        /\ \A r \in sends :
              r.by = a /\ r.result = "nil" => FromRequest(a, r.conn) # {}
        /\ \A site \in PairSites :
              FoundOffline(a, site) =>
                 \A h \in Conns : userID[h] = MemberAt(a, site) => FromRequest(a, h) = {}

\* The steps of a request: at each check the member is sent the notice if
\* and only if the registry has an entry for it at that step; a call starts
\* nowhere else and keeps its target and message; a write goes to the handle
\* the lookup found.
C15_Step ==
    \A a \in ApiCtxs :
        /\ \A site \in PairSites :
              pc[a] = CheckAt[site] /\ pc'[a] # pc[a] =>
                 IF connections[MemberAt(a, site)] # NoConn
                 THEN call'[a] = [site |-> site, target |-> MemberAt(a, site),
                                  message |-> NoticeAt(a, site), conn |-> NoConn]
                 ELSE call'[a] = NoCall /\ pc'[a] = AfterPairNotice[site] /\ sends' = sends
        /\ call[a] = NoCall /\ call'[a] # NoCall => pc[a] \in {CheckAt[s] : s \in PairSites}
        /\ call[a] # NoCall /\ call'[a] # NoCall =>
              /\ call'[a].site = call[a].site
              /\ call'[a].target = call[a].target
              /\ call'[a].message = call[a].message
        /\ \A h \in Conns :
              FromRequest(a, h)' # FromRequest(a, h) =>
                 /\ call[a].conn = h
                 /\ outbox'[h] = Append(outbox[h], Stamp(call[a].message, a, 0))

\* C15: when a pairing is created or deleted through the API, pair_created
\* or pair_deleted is sent to exactly the members that have a registry entry
\* when the handler checks; a member without one receives nothing from the
\* request, also not after it registers.
C15_OnlineMembersOnly == [][C15_Step /\ C15_NoBacklog']_vars

\* A pair was created while one member was connected and the other was not:
\* the first holds pair_created, the second has registered and opened since
\* and holds nothing from the request.
C15_Witness ==
    \E a \in ApiCtxs, c, d \in Conns :
        /\ pc[a] = "api_200"
        /\ FoundOffline(a, "created_partner")
        /\ userID[d] = MemberAt(a, "created_partner")
        /\ connections[userID[d]] = d /\ Opened(d)
        /\ FromRequest(a, d) = {}
        /\ userID[c] = userID[a]
        /\ \E i \in FromRequest(a, c) : outbox[c][i].msg.Type = "pair_created"

\* ------------------------------------------------------------------- C16
NoticeSites == PairSites \cup {"notify", "pair_status"}

\* The row of request a as the table holds it.
RowOf(a) == [ID |-> pair[a].ID, UserAID |-> pair[a].UserAID, UserBID |-> pair[a].UserBID]

\* Whatever a notification send returns, its caller takes the same next
\* step, and the send does not change the table.
C16_Step ==
    \A c \in Ctxs : \A r \in sends' \ sends :
        r.by = c /\ r.site \in NoticeSites =>
           /\ pairs' = pairs
           /\ CASE r.site = "notify" ->
                      /\ pc'[c] = "send_lookup"
                      /\ call'[c].site = "pair_status" /\ call'[c].target = userID[c]
                [] r.site = "pair_status" -> pc'[c] = "read"
                [] r.site = "created_self" -> pc'[c] = "api_created_partner"
                [] r.site = "created_partner" -> pc'[c] = "api_200"
                [] r.site = "deleted_self" -> pc'[c] = "api_deleted_partner"
                [] OTHER -> pc'[c] = "api_204"

\* From its first notice on, a creating request has its row in the table
\* and a deleting request has not, and the request ends with 200 or 204; a
\* handler whose opening sends are over has entered its loop.
C16_Outcome ==
    /\ \A a \in ApiCtxs :
          /\ (\E r \in sends : r.by = a) =>
                pc[a] \in {"send_lookup", "send_write", "evict", "evict_cs",
                           "api_created_partner", "api_deleted_partner",
                           "api_200", "api_204"}
          /\ pc[a] = "api_200" \/ call[a].site \in {"created_self", "created_partner"}
                => RowOf(a) \in pairs
          /\ pc[a] = "api_204" \/ call[a].site \in {"deleted_self", "deleted_partner"}
                => RowOf(a) \notin pairs
    /\ \A c \in Conns :
          (\E r \in sends : r.by = c /\ r.site = "pair_status") =>
             pc[c] \in {"read", "defer_unregister", "defer_unregister_cs", "close", "done"}

\* C16: a notification (partner_status, pair_status, pair_created,
\* pair_deleted) that is not delivered never changes what the operation that
\* sent it does: the pair stays created or deleted and the request answers
\* 200 or 204, and an opening connection goes on to its read loop.
C16_BestEffortNotices == [][C16_Step /\ C16_Outcome']_vars

\* A deletion has answered 204 although a pair_deleted failed, and a handler
\* is in its loop although its partner_status was not delivered.
C16_Witness ==
    \E a \in ApiCtxs, c \in Conns :
        /\ pc[a] = "api_204"
        /\ \E r \in sends : r.by = a /\ r.result = "SendFailed"
        /\ RowOf(a) \notin pairs
        /\ pc[c] = "read"
        /\ \E r \in sends : r.by = c /\ r.site = "notify" /\ r.result # "nil"

\* ------------------------------------------------------------------- C17
IsPairStatus(m) == m.Type = "pair_status"

\* The SendToUser calls of handler c that carry pair_status, finished or
\* under way.
PairStatusCalls(c) ==
    {r \in sends : r.by = c /\ r.site = "pair_status"} \cup
    (IF call[c].site = "pair_status" THEN {call[c]} ELSE {})

\* Handler c is past the pairing lookup of its opening sequence.
LookedUp(c) == \E r \in dbCalls : r.by = c /\ r.frame = 0 /\ r.op = "GetPairByUserID"

\* A handler that has looked up its pairing makes one pair_status call, for
\* its own identity, and none before; what it has written as pair_status
\* is one message at most, on a handle of that identity.
C17_Once ==
    \A c \in Conns :
        /\ Cardinality(PairStatusCalls(c)) <= 1
        /\ \A r \in PairStatusCalls(c) : r.target = userID[c] /\ LookedUp(c)
        /\ LookedUp(c) /\ call[c].site # "notify" => Cardinality(PairStatusCalls(c)) = 1
        /\ Cardinality(Delivered(c, AnyFrame, IsPairStatus)) <= 1
        /\ \A h \in Conns :
              Received(h, c, AnyFrame, IsPairStatus) # {} =>
                 /\ userID[h] = userID[c]
                 /\ \E r \in sends : r.by = c /\ r.site = "pair_status" /\ r.conn = h
                                      /\ r.result = "nil"
        /\ \A r \in sends :
              r.by = c /\ r.site = "pair_status" /\ r.result = "nil" =>
                 Received(r.conn, c, AnyFrame, IsPairStatus) # {}

\* The content: the lookup finds the identity's row in the table at that
\* step or finds none; the pair_status call carries has_pair = true with the
\* id of the row found, has_pair = false if none was found; and what is
\* written is what the call carries.
C17_Step ==
    \A c \in Conns :
        /\ pc[c] = "getpair" /\ pc'[c] # "getpair" =>
              IF \E p \in pairs : userID[c] \in {p.UserAID, p.UserBID}
              THEN /\ pair'[c] \in pairs
                   /\ userID[c] \in {pair'[c].UserAID, pair'[c].UserBID}
                   /\ call'[c].site = "notify"
              ELSE /\ call'[c].site = "pair_status"
                   /\ call'[c].message.Type = "pair_status"
                   /\ call'[c].message.Data.has_pair = "false"
        /\ call[c].site = "notify" =>
              /\ pair'[c] = pair[c]
              /\ call'[c].site # "notify" =>
                    /\ call'[c].site = "pair_status"
                    /\ call'[c].message.Type = "pair_status"
                    /\ call'[c].message.Data = [has_pair |-> "true", pair_id |-> pair[c].ID]
                    /\ pair[c].ID # ""
        /\ call[c].site = "pair_status" /\ call'[c].site = "pair_status" =>
              call'[c].message = call[c].message
        /\ \A h \in Conns :
              Received(h, c, AnyFrame, IsPairStatus)' # Received(h, c, AnyFrame, IsPairStatus) =>
                 /\ call[c].site = "pair_status" /\ call[c].conn = h
                 /\ outbox'[h] = Append(outbox[h], Stamp(call[c].message, c, 0))

\* C17: each handler that has registered identity X sends exactly one
\* pair_status to X; it carries has_pair = true and the pair's id if X is in
\* a pair when the handler looks it up, and has_pair = false otherwise.
C17_OnePairStatus == [][C17_Step /\ C17_Once']_vars

\* One handler was told has_pair = true with the id of its pair, and the
\* other, which connected after the pair was deleted, was told has_pair =
\* false.
C17_Witness ==
    \E c, d \in Conns :
        /\ \E i \in Received(c, c, AnyFrame, IsPairStatus) :
              outbox[c][i].msg.Data = [has_pair |-> "true", pair_id |-> "p1"]
        /\ \E i \in Received(d, d, AnyFrame, IsPairStatus) :
              outbox[d][i].msg.Data.has_pair = "false"
        /\ userID[d] \in {"x", "y"}
        /\ pairs = {}

\* ------------------------------------------------------------------- C18
\* The trigger_photo frames that carry no timestamp.
UnstampedTriggers ==
    {f \in frameLog : f.json /\ f.msg.Type = "trigger_photo" /\ f.msg.Timestamp = 0}

\* The take_photo messages written for frame f, and the one under way.
TakePhotosFor(f) ==
    {outbox[d[1]][d[2]].msg : d \in Delivered(f.by, {f.frame}, IsTakePhoto)} \cup
    (IF nframe[f.by] = f.frame /\ call[f.by].site \in TakeSites
     THEN {call[f.by].message} ELSE {})

\* Every take_photo of a frame without timestamp carries one timestamp,
\* which is not zero, not before the frame was read and not after now.
C18_Stamped ==
    \A f \in UnstampedTriggers :
        /\ Cardinality(TakePhotosFor(f)) <= 1
        /\ \A m \in TakePhotosFor(f) :
              /\ m.Type = "take_photo"
              /\ m.Timestamp # 0
              /\ m.Timestamp >= f.at
              /\ m.Timestamp <= now

\* The step that builds take_photo for a frame without timestamp reads the
\* clock and puts the reading into the message.
C18_Step ==
    \A c \in Conns :
        pc[c] = "trigger_online" /\ msg[c].Timestamp = 0 /\ call'[c].site = "take_initiator" =>
           /\ now' >= now
           /\ call'[c].message.Timestamp = now'

\* C18: when trigger_photo comes without timestamp or with timestamp 0 and
\* the partner is online, the take_photo that is sent carries the time at
\* which TriggerPhoto processed it: not zero and not earlier than the time
\* the frame was received.
C18_DefaultTimestamp == [][C18_Step /\ C18_Stamped']_vars

\* A frame without timestamp was read after time had passed, and the
\* partner's handle holds its take_photo.
C18_Witness ==
    \E f \in UnstampedTriggers :
        /\ f.at > 1
        /\ \E h \in Conns \ {f.by} :
              \E i \in Received(h, f.by, {f.frame}, IsTakePhoto) :
                 outbox[h][i].msg.Timestamp >= f.at

\* ------------------------------------------------------------------- C19
\* When the send of the initiator's take_photo returns, whatever it returns,
\* the partner is sent the same message next; when the partner's send
\* returns an error, the loop receives that error and is about to report it
\* on its own connection; when it returns nil, the loop reads on.
C19_Step ==
    \A c \in Conns : \A r \in sends' \ sends :
        r.by = c =>
           /\ r.site = "take_initiator" =>
                 /\ pc'[c] = "send_lookup"
                 /\ call'[c].site = "take_partner"
                 /\ call'[c].target \in {pair[c].UserAID, pair[c].UserBID} \ {userID[c]}
                 /\ call'[c].message = call[c].message
                 /\ errtext'[c] = ""
           /\ r.site = "take_partner" /\ r.result = "NotConnected" =>
                 pc'[c] = "send_error" /\ errtext'[c] = "user is not connected"
           /\ r.site = "take_partner" /\ r.result = "SendFailed" =>
                 pc'[c] = "send_error" /\ errtext'[c] = "failed to send message"
           /\ r.site = "take_partner" /\ r.result = "nil" =>
                 pc'[c] = "read" /\ errtext'[c] = ""

\* A frame whose take_photo reached the partner has produced no error
\* message, also if the initiator's copy failed; a frame whose take_photo
\* did not reach the partner has produced at most one, on the initiator's
\* own connection, with the text of the failure.
C19_Reported ==
    \A r \in sends :
        r.site = "take_partner" =>
           /\ \E q \in sends : q.by = r.by /\ q.frame = r.frame /\ q.site = "take_initiator"
           /\ IF r.result = "nil"
              THEN Delivered(r.by, {r.frame}, IsError) = {}
              ELSE /\ Delivered(r.by, {r.frame}, IsError) \subseteq
                         {<<r.by, i>> : i \in DOMAIN outbox[r.by]}
                   /\ Cardinality(Delivered(r.by, {r.frame}, IsError)) <= 1
                   /\ \A d \in Delivered(r.by, {r.frame}, IsError) :
                         outbox[d[1]][d[2]].msg.Message \in
                            {"user is not connected", "failed to send message"}
                   /\ Handled(r.by, r.frame) /\ Healthy(r.by) =>
                         Delivered(r.by, {r.frame}, IsError) # {}

\* C19: in trigger_photo with both members online at the check, a failure
\* to deliver take_photo to the partner is returned to the caller, which
\* reports it on the connection; a failure to deliver it to the sender is
\* only logged, and the partner is sent its take_photo all the same.
C19_PartnerFailureReturned == [][C19_Step /\ C19_Reported']_vars

\* The write of the initiator's copy failed (the initiator had its entry in
\* the registry, and so had the partner), the partner holds its take_photo,
\* and the handler is back in its loop with no error reported.
C19_Witness ==
    \E r, q \in sends :
        /\ r.site = "take_initiator" /\ r.result = "SendFailed"
        /\ q.site = "take_partner" /\ q.by = r.by /\ q.frame = r.frame /\ q.result = "nil"
        /\ userID[q.conn] # userID[r.by]
        /\ Received(q.conn, r.by, {r.frame}, IsTakePhoto) # {}
        /\ Handled(r.by, r.frame)
        /\ Delivered(r.by, {r.frame}, IsError) = {}

\* ------------------------------------------------------------------- C20
\* The decoded frames whose type the server does not know.
UnknownFrames ==
    {f \in frameLog : f.json /\ f.msg.Type \notin {"trigger_photo", "photo_uploaded"}}

IsUnknownType(m) == m.Type = "error" /\ m.Message = "Unknown message type"

\* C20: for a decoded frame whose type is neither trigger_photo nor
\* photo_uploaded, the handler calls neither the pair service nor the photo
\* service; it makes one SendToUser call, for the sender's identity; all it
\* writes for the frame are error messages on handles of that identity, one
\* at most; and once the frame is handled the sender's handle, if it is
\* still up, holds exactly one, saying that the type is unknown.
C20_UnknownTypeOneError ==
    \A f \in UnknownFrames :
        /\ ~\E r \in dbCalls : r.by = f.by /\ r.frame = f.frame
        /\ ~\E r \in trigLog : r.by = f.by /\ r.frame = f.frame
        /\ nframe[f.by] = f.frame => pc[f.by] \notin {"trigger", "trigger_online", "photo_update"}
        /\ \A r \in sends :
              r.by = f.by /\ r.frame = f.frame =>
                 r.site = "err_unknown" /\ r.target = userID[f.by]
        /\ Cardinality({r \in sends : r.by = f.by /\ r.frame = f.frame}) <= 1
        /\ Handled(f.by, f.frame) =>
              Cardinality({r \in sends : r.by = f.by /\ r.frame = f.frame}) = 1
        /\ Delivered(f.by, {f.frame}, LAMBDA m : ~IsError(m)) = {}
        /\ Cardinality(Delivered(f.by, {f.frame}, IsError)) <= 1
        /\ \A h \in Conns :
              Received(h, f.by, {f.frame}, IsError) # {} => userID[h] = userID[f.by]
        /\ Handled(f.by, f.frame) /\ Healthy(f.by) =>
              Cardinality(Received(f.by, f.by, {f.frame}, IsUnknownType)) = 1

\* A frame of unknown type was handled while the sender's partner was
\* connected: the sender holds the error and the partner holds nothing from
\* that frame.
C20_Witness ==
    \E f \in UnknownFrames : \E d \in Conns :
        /\ Handled(f.by, f.frame) /\ Healthy(f.by)
        /\ Received(f.by, f.by, {f.frame}, IsUnknownType) # {}
        /\ userID[d] \notin {NoUser, userID[f.by]}
        /\ Online(d) /\ Opened(d)
        /\ Received(d, f.by, {f.frame}, LAMBDA m : TRUE) = {}
        /\ \E r \in dbCalls : r.op = "UpdatePhotoS3URL"

\* ------------------------------------------------------------------- C21
\* The photo_uploaded frames, without and with both fields.
UploadedFrames == {f \in frameLog : f.json /\ f.msg.Type = "photo_uploaded"}
HasFields(f) == f.msg.PhotoID # "" /\ f.msg.S3URL # ""

\* The storage calls and the SendToUser calls made for a frame.
UpdatesFor(f) == {r \in dbCalls : r.by = f.by /\ r.frame = f.frame}
SendsFor(f) == {r \in sends : r.by = f.by /\ r.frame = f.frame}

ErrorTextOn(f, text) ==
    {i \in DOMAIN outbox[f.by] :
        /\ outbox[f.by][i].by = f.by /\ outbox[f.by][i].frame = f.frame
        /\ outbox[f.by][i].msg.Type = "error" /\ outbox[f.by][i].msg.Message = text}

\* For every photo_uploaded frame: nothing but errors is written, on
\* handles of the sender's identity only, and every SendToUser call is for
\* the sender; without both fields no storage call is made and the sender is
\* told that they are required; with both fields the handled frame has made
\* one storage update, and a failed update is reported to the sender while
\* a successful one sends nothing.
C21_State ==
    \A f \in UploadedFrames :
        /\ Delivered(f.by, {f.frame}, LAMBDA m : ~IsError(m)) = {}
        /\ Cardinality(Delivered(f.by, {f.frame}, IsError)) <= 1
        /\ \A h \in Conns :
              Received(h, f.by, {f.frame}, LAMBDA m : TRUE) # {} => userID[h] = userID[f.by]
        /\ \A r \in SendsFor(f) : r.target = userID[f.by]
        /\ nframe[f.by] = f.frame /\ call[f.by] # NoCall => call[f.by].target = userID[f.by]
        /\ \A r \in UpdatesFor(f) : r.op = "UpdatePhotoS3URL"
        /\ Cardinality(UpdatesFor(f)) <= 1
        /\ IF ~HasFields(f)
           THEN /\ UpdatesFor(f) = {}
                /\ nframe[f.by] = f.frame => pc[f.by] # "photo_update"
                /\ \A r \in SendsFor(f) : r.site = "err_fields"
                /\ Handled(f.by, f.frame) => Cardinality(SendsFor(f)) = 1
                /\ Handled(f.by, f.frame) /\ Healthy(f.by) =>
                      Cardinality(ErrorTextOn(f, "photo_id and s3_url are required")) = 1
           ELSE /\ Handled(f.by, f.frame) => Cardinality(UpdatesFor(f)) = 1
                /\ \A r \in SendsFor(f) :
                      r.site = "err_update" /\ \E u \in UpdatesFor(f) : ~u.ok
                /\ \A u \in UpdatesFor(f) :
                      IF u.ok
                      THEN /\ SendsFor(f) = {}
                           /\ Delivered(f.by, {f.frame}, LAMBDA m : TRUE) = {}
                      ELSE /\ Handled(f.by, f.frame) => Cardinality(SendsFor(f)) = 1
                           /\ Handled(f.by, f.frame) /\ Healthy(f.by) =>
                                 Cardinality(ErrorTextOn(f, "Failed to update photo")) = 1

\* The storage update is called in one step of the handler, which it does
\* not repeat for the frame.
C21_Step ==
    \A c \in Conns :
        /\ (\E r \in dbCalls' \ dbCalls : r.by = c /\ r.op = "UpdatePhotoS3URL") =>
              pc[c] = "photo_update" /\ pc'[c] # "photo_update"
        /\ pc[c] # "photo_update" /\ pc'[c] = "photo_update" =>
              pc[c] = "read" /\ nframe'[c] = nframe[c] + 1

\* C21: for photo_uploaded, an empty photo_id or s3_url gives the sender an
\* error and no storage call; with both present the storage update is called
\* exactly once and its failure gives the sender an error; in no case is a
\* message sent to the partner.
C21_PhotoUploaded == [][C21_Step /\ C21_State']_vars

\* While its partner was connected, one identity sent a photo_uploaded
\* without a field and one whose update failed: it holds both errors, and
\* the partner holds nothing from these frames.
C21_Witness ==
    \E f, g \in UploadedFrames : \E d \in Conns :
        /\ f.by = g.by /\ ~HasFields(f) /\ HasFields(g)
        /\ Handled(f.by, f.frame) /\ Handled(g.by, g.frame) /\ Healthy(f.by)
        /\ ErrorTextOn(f, "photo_id and s3_url are required") # {}
        /\ ErrorTextOn(g, "Failed to update photo") # {}
        /\ userID[d] = "y" /\ userID[f.by] = "x"
        /\ Online(d) /\ Opened(d)
        /\ Received(d, f.by, {f.frame, g.frame}, LAMBDA m : TRUE) = {}

\* ------------------------------------------------------------------- C22
\* The call sites of the error replies: unknown type, missing field, no
\* pairing, partner offline, failed record update.
ErrorSites == {"err_unknown", "err_fields", "err_nopair", "err_offline", "err_update"}

\* The error replies that were written.
ErrorsDelivered == {r \in sends : r.site \in ErrorSites /\ r.result = "nil"}

\* The step that delivers an error reply writes it and changes nothing
\* else: no entry of the registry, no handle; and the handler is back at
\* its read.
C22_Step ==
    \A r \in ErrorsDelivered' \ ErrorsDelivered :
        /\ connections' = connections
        /\ closed' = closed
        /\ broken' = broken
        /\ mu' = mu
        /\ outbox' = [outbox EXCEPT ![r.conn] = Append(@, Stamp(call[r.by].message, r.by, r.frame))]
        /\ call[r.by].message.Type = "error"
        /\ pc'[r.by] = "read"
        /\ unregCalls'[r.by] = 0

\* A handler leaves its loop only by a failed read: as long as it has made
\* no deferred call it is in its loop or handling a frame.
C22_InLoop ==
    \A r \in ErrorsDelivered :
        unregCalls[r.by] = 0 /\ pc[r.by] \notin {"defer_unregister", "defer_unregister_cs"} =>
            pc[r.by] \in {"read", "trigger", "trigger_online", "photo_update",
                          "send_lookup", "send_write", "evict", "evict_cs", "send_error"}

\* C22: an error reply (unknown type, missing field, no pairing, partner
\* offline, failed record update) that is delivered leaves the sender's
\* connection open: the delivery changes neither the registry nor any
\* handle, and the handler goes back to reading frames.
C22_ErrorKeepsConnection == [][C22_Step /\ C22_InLoop']_vars

\* A handler delivered an error reply for its first frame, has handled its
\* second frame as well, and its handle is still its identity's entry.
C22_Witness ==
    \E r, q \in ErrorsDelivered :
        /\ r.by = q.by /\ r.frame = 1 /\ q.frame = 2
        /\ r.site # q.site
        /\ r.conn = r.by /\ q.conn = r.by
        /\ Handled(r.by, 2)
        /\ Healthy(r.by)
        /\ connections[userID[r.by]] = r.by

\* ------------------------------------------------------------------- C23
\* The order in which a handler issues its sends to one recipient: the
\* opening messages, then frame by frame, and within a frame take_photo
\* before the error that reports the partner's failure.
IssueRank(e) == 2 * e.frame + (IF e.msg.Type = "error" THEN 1 ELSE 0)

\* On every handle, the messages of one context stand in the order in
\* which the context issued them.
C23_InOrder ==
    \A h \in Conns : \A i, j \in DOMAIN outbox[h] :
        i < j /\ outbox[h][i].by = outbox[h][j].by =>
            IssueRank(outbox[h][i]) < IssueRank(outbox[h][j])

\* A write puts its message behind everything the handle has received, and
\* it is the message of the send its context has issued last.
C23_Step ==
    \A h \in Conns :
        outbox'[h] # outbox[h] =>
           /\ Len(outbox'[h]) = Len(outbox[h]) + 1
           /\ SubSeq(outbox'[h], 1, Len(outbox[h])) = outbox[h]
           /\ LET e == outbox'[h][Len(outbox'[h])] IN
                 /\ e.frame = nframe[e.by]
                 /\ pc[e.by] = "send_write" => e.msg = call[e.by].message /\ call[e.by].conn = h
                 /\ pc[e.by] # "send_write" => pc[e.by] = "send_error" /\ e.by = h

\* C23: the messages one context sends to one recipient are delivered to
\* it in the order the context issued the sends, however the sends of other
\* contexts interleave.
C23_FifoPerSender == [][C23_Step /\ C23_InOrder']_vars

\* A handle holds two messages of one context and, between them, a message
\* of another context.
C23_Witness ==
    \E h \in Conns : \E i, j, k \in DOMAIN outbox[h] :
        /\ i < j /\ j < k
        /\ outbox[h][i].by = outbox[h][k].by
        /\ outbox[h][j].by # outbox[h][i].by
        /\ outbox[h][i].msg.Type = "pair_status"
        /\ outbox[h][k].msg.Type = "take_photo"

\* ------------------------------------------------------------------- C24
\* Context c runs Unregister(u) in this step: the eviction after a failed
\* write, or the deferred call of a handler.
Unregisters(c, u) ==
    \/ pc[c] = "evict_cs" /\ pc'[c] # "evict_cs" /\ u = call[c].target
    \/ pc[c] = "defer_unregister_cs" /\ pc'[c] # "defer_unregister_cs" /\ u = userID[c]

\* Unregister(u) closes the handle that is u's entry and removes the entry;
\* without an entry it closes nothing and leaves the registry as it is.
C24_Step ==
    \A c \in Conns, u \in Users :
        Unregisters(c, u) =>
           IF connections[u] # NoConn
           THEN /\ closed' = closed \cup {connections[u]}
                /\ connections' = [connections EXCEPT ![u] = NoConn]
           ELSE /\ closed' = closed
                /\ connections' = connections

\* The calls are recorded with the entry they found.
C24_Logged ==
    \A r \in hubLog :
        r.op = "unregister" /\ r.entry # NoConn => r.entry \in closed

\* C24: Unregister for an identity with an entry closes the entry's handle
\* and removes the entry; for an identity without an entry it is a no-op,
\* so a repeated Unregister leaves the registry as the first one left it.
C24_UnregisterIdempotent == [][C24_Step /\ C24_Logged']_vars

\* Unregister has run twice for one identity: the first call found an
\* entry and the second found none; the identity has no entry.
C24_Witness ==
    \E r, q \in hubLog :
        /\ r.op = "unregister" /\ q.op = "unregister"
        /\ r.user = q.user
        /\ r.entry # NoConn /\ q.entry = NoConn
        /\ connections[r.user] = NoConn
        /\ r.entry \in closed

\* ------------------------------------------------------------------- C25
\* The identity whose entry TriggerPhoto looks up for handler c.
LookedUpBy(c) == IF pair[c].UserAID = userID[c] THEN pair[c].UserBID ELSE pair[c].UserAID

\* The step of TriggerPhoto that calls IsOnline goes on to take_photo
\* exactly when the registry has an entry for the partner in that step, and
\* to the error otherwise; it changes no entry and no handle, takes no lock
\* with it and writes nothing.
C25_Step ==
    \A c \in Conns :
        pc[c] = "trigger_online" /\ pc'[c] # "trigger_online" =>
           /\ call'[c].site = "take_initiator" <=> connections[LookedUpBy(c)] # NoConn
           /\ call'[c].site = "err_offline" <=> connections[LookedUpBy(c)] = NoConn
           /\ connections' = connections
           /\ mu' = mu
           /\ closed' = closed
           /\ broken' = broken
           /\ outbox' = outbox
           /\ sends' = sends
           /\ hubLog' = hubLog

\* Every take_photo that is sent or under way belongs to a lookup that
\* found an entry, every "Partner is offline" to one that found none.
C25_Answer ==
    \A r \in trigLog :
        /\ (\E q \in sends : q.by = r.by /\ q.frame = r.frame /\ q.site \in TakeSites)
              => r.partnerEntry # NoConn
        /\ (\E q \in sends : q.by = r.by /\ q.frame = r.frame /\ q.site = "err_offline")
              => r.partnerEntry = NoConn

\* C25: IsOnline(X) is true exactly when the registry has an entry for X at
\* the lookup, and it changes nothing: no entry is added, removed or
\* replaced, no handle is closed and no message is sent.
C25_IsOnlinePure == [][C25_Step /\ C25_Answer']_vars

\* IsOnline has just answered true for an identity whose entry is a handle
\* that has already failed, and earlier answered false for another lookup.
C25_Witness ==
    \E r, q \in trigLog :
        /\ r.partnerEntry # NoConn /\ r.partnerEntry \in broken
        /\ connections[userID[r.partnerEntry]] = r.partnerEntry
        /\ pc[r.by] = "send_lookup" /\ call[r.by].site = "take_initiator"
        /\ call[r.by].conn = NoConn /\ nframe[r.by] = r.frame
        /\ q.partnerEntry = NoConn

\* ------------------------------------------------------------------- C26
\* The pairs a user is a member of.
PairsOf(u) == {p \in pairs : u \in {p.UserAID, p.UserBID}}

\* A request inserts a pair only if neither member is in a pair already.
C26_Step ==
    \A p \in pairs' \ pairs :
        PairsOf(p.UserAID) = {} /\ PairsOf(p.UserBID) = {}

\* C26: after any interleaving of concurrent CreatePair requests every user
\* is a member of at most one pair; a request whose requester or target is
\* already in a pair inserts no pair.
C26_OnePairPerUser ==
    [][C26_Step /\ (\A u \in Users : Cardinality(PairsOf(u)) <= 1)']_vars

\* ------------------------------------------------------------------- C27
\* The requests the pair handler has rejected.
Rejected(a) == pc[a] \in {"api_400", "api_403", "api_404", "api_409", "api_500"}

\* A delete request whose pair does not exist when it is looked up is
\* answered 404 and one whose requester is not a member 403, and both leave
\* the table as it is; a row is deleted only by the request of a member.
C27_Step ==
    \A a \in DOMAIN pc :
        /\ pc[a] = "api" /\ pc'[a] # "api" /\ pair'[a] \in pairs
             /\ userID'[a] \notin {pair'[a].UserAID, pair'[a].UserBID}
             => pc'[a] = "api_403" /\ pairs' = pairs
        /\ pc[a] = "api_delete" /\ pc'[a] # "api_delete" =>
              IF ~\E p \in pairs : p.ID = pair[a].ID
              THEN pc'[a] = "api_404" /\ pairs' = pairs
              ELSE IF userID[a] \notin {pair[a].UserAID, pair[a].UserBID}
              THEN pc'[a] = "api_403" /\ pairs' = pairs
              ELSE pairs' = pairs \ {pair[a]}
        /\ pc[a] # "api_404" /\ pc'[a] = "api_404" => pairs' = pairs

\* A rejected request has sent nothing and is sending nothing.
C27_Silent ==
    \A a \in DOMAIN pc :
        Rejected(a) =>
           /\ call[a] = NoCall
           /\ ~\E r \in sends : r.by = a
           /\ \A h \in Conns : \A i \in DOMAIN outbox[h] : outbox[h][i].by # a

\* C27: a DeletePair request by a user who is not a member of the pair is
\* rejected as forbidden, leaves the pair in place and sends no pair_deleted;
\* a request for a pair that does not exist is rejected as not found and
\* sends nothing.
C27_DeleteRejections == [][C27_Step /\ C27_Silent']_vars

\* ------------------------------------------------------------------- C28
\* Handler c runs its deferred Unregister in this step.
DeferredUnregister(c) == pc[c] = "defer_unregister_cs" /\ pc'[c] # "defer_unregister_cs"

\* C28: when identity X has reconnected with a new handle while the handler
\* of X's older connection is still running, the deferred Unregister of the
\* older handler neither closes nor removes the new handle: it stays X's
\* registry entry.
C28_OldHandlerSparesNewHandle ==
    [][\A c, d \in Conns :
          (/\ c # d
           /\ DeferredUnregister(c)
           /\ userID[d] = userID[c]
           /\ connections[userID[d]] = d)
          => /\ connections'[userID[d]] = d
             /\ d \in closed' => d \in closed]_vars

\* ------------------------------------------------------------------- C29
\* Context c runs the Unregister that follows its failed write in this step.
Evicts(c) == pc[c] = "evict_cs" /\ pc'[c] # "evict_cs"

\* C29: the eviction inside SendToUser removes only the handle on which
\* the write failed: if the target identity was registered with a new handle
\* between the lookup and the failed write, the new handle is neither closed
\* nor removed.
C29_EvictionSparesNewHandle ==
    [][\A c \in DOMAIN pc : \A d \in Conns :
          (/\ Evicts(c)
           /\ connections[call[c].target] = d
           /\ d # call[c].conn)
          => /\ connections'[call[c].target] = d
             /\ d \in closed' => d \in closed]_vars

\* ------------------------------------------------------------------- C30
\* The handle on which context c has a conn.WriteMessage call under way:
\* SendToUser's write after it released the lock (part_004 lines 83-85) or
\* sendError's write on the handler's own connection (websocket.go line 203).
WritingTo(c) ==
    IF pc[c] = "send_write" THEN call[c].conn
    ELSE IF pc[c] = "send_error" THEN c
    ELSE NoConn

\* C30: at no time do two execution contexts write to the same connection
\* handle concurrently: the writes of SendToUser from different handlers and
\* the error write of the connection's own handler are serialized per handle.
C30_OneWriterPerHandle ==
    \A c, d \in DOMAIN pc :
        (c # d /\ WritingTo(c) # NoConn) => WritingTo(c) # WritingTo(d)

\* ------------------------------------------------------------------- C31
\* The decoded trigger_photo frames, and those whose handling is over.
TriggerFramesRead == {f \in frameLog : f.json /\ f.msg.Type = "trigger_photo"}
TriggersHandled == {f \in TriggerFramesRead : Handled(f.by, f.frame)}

\* A handle of the sender's identity, or one of another identity, holds the
\* take_photo of frame f; a handle holds an error written for frame f.
SenderGot(f) ==
    \E h \in Conns : /\ userID[h] = userID[f.by]
                     /\ Received(h, f.by, {f.frame}, IsTakePhoto) # {}
PartnerGot(f) ==
    \E h \in Conns : /\ userID[h] # userID[f.by]
                     /\ Received(h, f.by, {f.frame}, IsTakePhoto) # {}
ErrorGot(f) == Delivered(f.by, {f.frame}, IsError) # {}

\* The SendToUser calls of frame f that have returned, by call site.
SendsAt(f, site) == {r \in sends : r.by = f.by /\ r.frame = f.frame /\ r.site = site}

\* C31 as claimed: handling one trigger_photo is all-or-nothing with respect
\* to take_photo: either both the sender and the partner are sent take_photo
\* or neither is, and the sender never receives take_photo together with an
\* error for the same trigger.
C31_AllOrNothing ==
    \A f \in TriggersHandled :
        /\ SenderGot(f) <=> PartnerGot(f)
        /\ ~(SenderGot(f) /\ ErrorGot(f))

\* C31 (amended): handling one trigger_photo sends take_photo to nobody when
\* the partner is found offline at the check; otherwise the sender's copy is
\* sent first and the partner's second, whatever became of the sender's.
\* The sender holds take_photo together with an error of the same trigger
\* only when the partner's send failed, and then the partner holds no
\* take_photo; the partner holds take_photo without the sender only when
\* the sender's own send failed.
C31_SenderFirstThenPartner ==
    \A f \in TriggerFramesRead :
        /\ \A t \in trigLog :
              t.by = f.by /\ t.frame = f.frame /\ t.partnerEntry = NoConn =>
                 /\ ~SenderGot(f) /\ ~PartnerGot(f)
                 /\ SendsAt(f, "take_initiator") = {} /\ SendsAt(f, "take_partner") = {}
        /\ SenderGot(f) => \E r \in SendsAt(f, "take_initiator") : r.result = "nil"
        /\ PartnerGot(f) =>
              /\ SendsAt(f, "take_initiator") # {}
              /\ \E q \in SendsAt(f, "take_partner") : q.result = "nil"
        /\ SenderGot(f) /\ ErrorGot(f) =>
              /\ ~PartnerGot(f)
              /\ \E q \in SendsAt(f, "take_partner") : q.result # "nil"
        /\ PartnerGot(f) /\ ~SenderGot(f) =>
              \E r \in SendsAt(f, "take_initiator") : r.result # "nil"
        /\ f \in TriggersHandled /\ SendsAt(f, "take_initiator") # {} =>
              SendsAt(f, "take_partner") # {}

\* The partner left between the check and its send: the sender holds both
\* take_photo and the error of one trigger, and the partner holds nothing.
C31_Witness ==
    \E f \in TriggersHandled :
        /\ SenderGot(f) /\ ErrorGot(f) /\ ~PartnerGot(f)
        /\ \E q \in SendsAt(f, "take_partner") : q.result = "NotConnected"

\* ------------------------------------------------------------------- C32
\* The positions of a context inside a call of Register, Unregister,
\* IsOnline, SendToUser (its write and its eviction included) or
\* TriggerPhoto.
InHubCall ==
    {"register", "register_cs", "trigger_online", "send_lookup", "send_write",
     "evict", "evict_cs", "defer_unregister", "defer_unregister_cs"}

\* C32: the registry is deadlock-free: when the writes complete, for any
\* interleaving of Register, Unregister, IsOnline, SendToUser with its
\* eviction and TriggerPhoto, no context stays inside a call for ever and
\* the lock is released again and again, by every context that took it.
C32_DeadlockFree ==
    /\ []<>(mu = {})
    /\ \A c \in Conns : []<>(pc[c] \notin InHubCall /\ c \notin mu)

\* One context is inside the eviction of a failed write, holding the lock,
\* while the other waits for the lock with a lookup, a Register or an
\* Unregister.
C32_Witness ==
    \E c, d \in Conns :
        /\ c # d
        /\ pc[c] = "evict_cs" /\ c \in mu
        /\ pc[d] \in {"send_lookup", "trigger_online", "register", "defer_unregister"}

\* ------------------------------------------------------------------- C33
\* While nobody holds the lock for writing, no entry of the registry is a
\* handle on which the server has called Close.
C33_EntriesOpen ==
    mu = {} => \A u \in Users : connections[u] # NoConn => connections[u] \notin closed

\* A step that takes a handle out of the registry, by removing its entry or
\* by replacing it, leaves the handle closed.
C33_Step ==
    \A u \in Users :
        (connections[u] # NoConn /\ connections'[u] # connections[u]) =>
            connections[u] \in closed'

\* C33: whenever the registry lock is not held for writing, no registry
\* entry maps to a handle that the server itself has closed, and every
\* handle that was removed from or replaced in the registry has been closed:
\* no handle is dropped while still open.
C33_NoClosedEntryNoOpenDrop == [][C33_Step /\ C33_EntriesOpen']_vars

\* The lock is free; one handle was registered, its entry has been removed
\* and it is closed; the other handle is its identity's entry and is not
\* closed.
C33_Witness ==
    /\ mu = {}
    /\ \E c, d \in Conns :
          /\ c # d
          /\ userID[c] # NoUser /\ userID[d] # NoUser
          /\ connections[userID[c]] = NoConn
          /\ \E i \in DOMAIN regLog[userID[c]] : regLog[userID[c]][i] = c
          /\ c \in closed
          /\ connections[userID[d]] = d
          /\ d \notin closed

\* ------------------------------------------------------------------- C34
\* The take_photo messages the handles hold, with the handle that holds each.
TakePhotosHeld ==
    UNION {{<<h, outbox[h][i]>> : i \in {j \in DOMAIN outbox[h] : IsTakePhoto(outbox[h][j].msg)}} :
              h \in Conns}

\* Every take_photo a handle holds names as initiator the identity of the
\* handler that sent it, and the handle belongs to that identity or to the
\* partner of the row that handler's lookup returned for the frame.
C34_Recipients ==
    \A d \in TakePhotosHeld :
        /\ d[2].msg.InitiatorID = userID[d[2].by]
        /\ \E t \in trigLog :
              /\ t.by = d[2].by /\ t.frame = d[2].frame
              /\ userID[d[1]] \in {userID[d[2].by], t.partner}

\* The row a handler works with is one the table held for its identity when
\* the trigger was handled, it stays the same until the frame is done, and
\* the partner TriggerPhoto is called with is the other member of that row.
C34_Step ==
    \A c \in Conns :
        /\ (pc[c] = "trigger" /\ pc'[c] = "trigger_online") =>
              /\ pair'[c] \in pairs
              /\ userID[c] \in {pair'[c].UserAID, pair'[c].UserBID}
        /\ (pc[c] = "trigger_online" \/ (pc[c] # "read" /\ call[c].site \in TakeSites)) =>
              \/ pair'[c] = pair[c]
              \/ pc'[c] \in {"read", "send_error", "defer_unregister"}
        /\ \A t \in trigLog' \ trigLog :
              t.by = c =>
                 /\ {userID[c], t.partner} = {pair[c].UserAID, pair[c].UserBID}
                 /\ t.frame = nframe[c]

\* C34: a take_photo caused by X's trigger_photo is delivered only to X and
\* to the identity that the pairing lookup returned as X's partner when the
\* trigger was handled, never to a third identity, whatever registrations
\* and pairing changes happen meanwhile.
C34_OnlySenderAndPartner == [][C34_Step /\ C34_Recipients']_vars

\* x's partner holds the take_photo of a trigger although the table no
\* longer pairs the two; and another trigger of x found the other row, whose
\* partner is not connected, and reached nobody.
C34_Witness ==
    \E d \in TakePhotosHeld :
        /\ userID[d[1]] # userID[d[2].by]
        /\ GetByUserID(userID[d[1]]) = {}
        /\ \E t \in trigLog :
              /\ t.by = d[2].by /\ t.frame # d[2].frame
              /\ t.partner # userID[d[1]]
              /\ Delivered(t.by, {t.frame}, IsTakePhoto) = {}

\* ------------------------------------------------------------------- C35
\* How far the handler of connection c has come: 0 nothing yet (or the
\* request was refused), 1 token validated and connection upgraded,
\* 2 registered, 3 sending partner_status, 4 sending pair_status, 5 in the
\* read loop, 6 the loop is over, 7 Unregister has been called, 8 finished.
Stage(c) ==
    CASE pc[c] \in {"idle", "unauthorized", "upgrade_failed"} -> 0
      [] pc[c] \in {"register", "register_cs"} -> 1
      [] pc[c] = "getpair" -> 2
      [] pc[c] \in {"send_lookup", "send_write", "evict", "evict_cs"} ->
            IF call[c].site = "notify" THEN 3
            ELSE IF call[c].site = "pair_status" THEN 4 ELSE 5
      [] pc[c] \in {"defer_unregister", "defer_unregister_cs"} -> 6
      [] pc[c] = "close" -> 7
      [] pc[c] = "done" -> 8
      [] OTHER -> 5

\* The SendToUser calls handler c made at a call site of its opening
\* sequence and that have returned.
OpeningSends(c, site) == {r \in sends : r.by = c /\ r.frame = 0 /\ r.site = site}

\* Each stage has what the stages before it leave behind.
C35_Stages ==
    \A c \in Conns :
        /\ Stage(c) >= 1 => userID[c] # NoUser /\ token[c] \notin {"", "garbage"}
        /\ Stage(c) >= 2 <=> \E r \in hubLog : r.op = "register" /\ r.by = c /\ r.user = userID[c]
        /\ Stage(c) <= 2 => OpeningSends(c, "notify") = {} /\ OpeningSends(c, "pair_status") = {}
        /\ Stage(c) = 3 => OpeningSends(c, "notify") = {} /\ OpeningSends(c, "pair_status") = {}
        /\ Stage(c) = 4 => OpeningSends(c, "pair_status") = {}
        /\ Stage(c) >= 5 => OpeningSends(c, "pair_status") # {}
        /\ Stage(c) <= 4 => nframe[c] = 0 /\ ~\E f \in frameLog : f.by = c
        /\ Stage(c) >= 7 <=> \E r \in hubLog : r.op = "unregister" /\ r.by = c /\ r.kind = "defer"

\* The stages follow one another: a handler never goes back, it skips only
\* partner_status, and only when its identity has no partner; a frame is
\* read and dispatched in the read loop only, by a handler that has
\* registered, has sent pair_status and has not called Unregister.
C35_Step ==
    \A c \in Conns :
        /\ \/ Stage(c)' \in {Stage(c), Stage(c) + 1}
           \/ /\ Stage(c) = 2 /\ Stage(c)' = 4
              /\ \A p \in pairs : userID[c] \notin {p.UserAID, p.UserBID}
        /\ (Stage(c) = 2 /\ Stage(c)' = 3) =>
              \E p \in pairs : /\ userID[c] \in {p.UserAID, p.UserBID}
                               /\ call'[c].target \in {p.UserAID, p.UserBID} \ {userID[c]}
        /\ (Stage(c) = 3 /\ Stage(c)' = 4) => call'[c].target = userID[c]
        /\ (nframe'[c] # nframe[c] \/ \E f \in frameLog' \ frameLog : f.by = c) =>
              /\ pc[c] = "read"
              /\ \E r \in hubLog : r.op = "register" /\ r.by = c
              /\ OpeningSends(c, "pair_status") # {}
              /\ ~\E r \in hubLog' : r.op = "unregister" /\ r.by = c /\ r.kind = "defer"
              /\ unregCalls[c] = 0

\* C35: for every connection the lifecycle steps occur in the order token
\* validated, upgrade, Register, partner online notification and
\* pair_status to the identity, then frame dispatch; no inbound frame of a
\* connection is dispatched before the connection has been registered, and
\* none after its handler has called Unregister.
C35_LifecycleOrder == [][C35_Step /\ C35_Stages']_vars

\* A handler went through every stage: it notified its partner, sent
\* pair_status, dispatched a frame, called Unregister and finished.
C35_Witness ==
    \E c \in Conns :
        /\ pc[c] = "done"
        /\ OpeningSends(c, "notify") # {}
        /\ OpeningSends(c, "pair_status") # {}
        /\ \E f \in frameLog : f.by = c /\ f.json
        /\ unregCalls[c] = 1

====
